---- MODULE Spec2Model ----
(***************************************************************************)
(* A model of the marketplace backend in src/db.js: users with a balance   *)
(* and a JSON ledger (transactions_history), products with a cached stock  *)
(* counter, the product_stock pool, orders, and the HTTP handlers that     *)
(* move money and stock.  Every action is one completed request: the whole *)
(* handler, from its first SELECT to its response.                         *)
(*                                                                         *)
(* Money is kept in cents (integers): the handlers' toFixed(2) roundings   *)
(* are roundings to a whole number of cents.                               *)
(***************************************************************************)
EXTENDS Integers, Sequences, FiniteSets, TLC

\* ------------------------------------------------------------------ bounds

\* Longest ledger (transactions_history) a user may hold in the model.
MaxLedger == 3
\* Most recharge requests a user may record in the model.
MaxRecharges == 2
\* Most rows the product_stock table may hold in the model.
MaxStock == 4
\* Largest quantity a purchase request asks for.
MaxQty == 2
\* The days of the model's calendar (days since the first day).
CalendarDays == {0, 10, 31, 50}
\* Largest balance, in cents and in absolute value, an administrator's
\* balance change may leave.
MaxBalance == 5000

UserIds == {1, 2, 3}
ProductIds == {1}

\* Prices and recharge amounts the clients send, in cents.
PurchaseAmounts == {1000}
RechargeAmounts == {4, 5000}
RefundAmounts == {1000}
BalanceChanges == {-3000}
\* The users the shop's requests name as buyer and as provider, and the
\* users who record recharges.
Buyers == {1, 2}
Providers == {1}
Rechargers == {2}
\* The users and roles the administrator's role updates name.
RoleUpdateUsers == {3}
NewRoles == {"Distribuidor Premium", "proveedor", "Admin", "Pending"}

\* ------------------------------------------------------------ pure helpers

Max(a, b) == IF a >= b THEN a ELSE b

\* parseInt(digits, radix) on a string of decimal digits, most significant first.
RECURSIVE ParseInt(_, _)
ParseInt(digits, radix) ==
    IF digits = <<>> THEN 0
    ELSE ParseInt(SubSeq(digits, 1, Len(digits) - 1), radix) * radix
         + digits[Len(digits)]

\* x.toFixed(2) of the quotient num / den of two amounts in cents
\* (den > 0, num >= 0): the nearest cent, a half rounding up.
RoundDiv(num, den) == (2 * num + den) \div (2 * den)

\* parseInt(data.quantity) || 1 : an absent, zero or unparsable quantity
\* (stored here as 0) counts as one unit.
ParseQuantity(raw) == IF raw = 0 THEN 1 ELSE raw

\* -------------------------------------------------------------------- state

VARIABLES
    balance,      \* users.balance, in cents
    role,         \* users.role
    referredBy,   \* users.referred_by_user_id (0 = NULL)
    history,      \* users.transactions_history, newest first
    products,     \* products rows: stock counter, creator, delivery, duration
    stock,        \* product_stock rows, the row id is the index
    orders,       \* orders rows
    today,        \* the server's calendar day
    withdrawals,      \* withdrawals rows
    lastWithdrawalId, \* the AUTOINCREMENT sequence of withdrawals
    withdrawalFee,    \* settings row 'withdrawal_fee', in thousandths: <<>> or <<value>>
    withdrawing,      \* /supplier/withdraw requests between their reads and their writes
    premiumExpiresAt, \* users.premium_expires_at as a calendar day: <<>> (NULL) or <<day>>
    users,            \* the ids of the rows of the users table
    inFlight,         \* requests between their reads and their writes, with what they read
    username          \* user id -> users.username

\* the state of the withdrawal desk
withdrawVars == <<withdrawals, lastWithdrawalId, withdrawalFee, withdrawing>>

vars == <<balance, role, referredBy, history, products, stock, orders, today,
          withdrawals, lastWithdrawalId, withdrawalFee, withdrawing,
          premiumExpiresAt, users, inFlight, username>>

\* A ledger entry.  Entries written without a details object have
\* hasDetails = FALSE and the detail fields at their empty values.
NoDetails ==
    [hasDetails |-> FALSE, productName |-> 0, fullCredentials |-> <<>>,
     delivery |-> "", purchaseDate |-> -1,
     duration |-> [digits |-> <<>>, unit |-> ""],
     quantity |-> 0, hasProposed |-> FALSE, proposedCredentials |-> <<>>,
     months |-> 0, expirationDate |-> <<>>]

NoLinks ==
    [isCommission |-> FALSE, isRefund |-> FALSE, sourceUser |-> 0,
     buyerUserId |-> 0, buyerTransactionId |-> <<>>,
     isWithdrawal |-> FALSE, isWithdrawalRefund |-> FALSE,
     isRenewal |-> FALSE, isRenovation |-> FALSE]

\* The id of a new entry (Date.now() or a random "#ORD-" code in the source):
\* a value no other entry has.  The model names it by the ledger the entry
\* is inserted into and the entry's rank in it; entries are never removed.
NewId(userId, ledger) == <<userId, Len(ledger) + 1>>

Entry(id, description, amount, type, status) ==
    [id |-> id, description |-> description, amount |-> amount,
     type |-> type, status |-> status] @@ NoDetails @@ NoLinks

\* The stock pools the model starts from: rows of product 1, owned by user 1.
StockRow(quantity, status) ==
    [product_id |-> 1, provider_user_id |-> 1, quantity |-> quantity,
     status |-> status, is_sold |-> FALSE, sold_to_user_id |-> 0]

InitPools ==
    { <<StockRow(2, "Publicado"), StockRow(1, "Publicado")>>,
      <<StockRow(1, "Publicado"), StockRow(2, "Publicado")>>,
      <<StockRow(0, "Publicado"), StockRow(1, "Sin publicar")>> }

\* updateProductStock's sum: the quantities of the unsold rows of a
\* product whose status is not 'Sin publicar'.
RECURSIVE PoolSum(_, _)
PoolSum(rows, productId) ==
    IF rows = <<>> THEN 0
    ELSE LET row == rows[Len(rows)] IN
         PoolSum(SubSeq(rows, 1, Len(rows) - 1), productId)
         + (IF row.product_id = productId /\ ~row.is_sold
               /\ row.status # "Sin publicar"
            THEN ParseQuantity(row.quantity) ELSE 0)

\* No user has a premium expiry: premium_expires_at DEFAULT NULL.
NoPremium == premiumExpiresAt = [u \in UserIds |-> <<>>]

\* The usernames the accounts registered with.
Registered == [u \in UserIds |-> IF u = 1 THEN "ana" ELSE IF u = 2 THEN "bea" ELSE "caz"]

\* Every user the requests name has a row in the users table, and no
\* request is running.
AllRegistered == users = UserIds /\ inFlight = <<>> /\ username = Registered

\* The withdrawals table is empty, no fee is stored, no request is running.
NoWithdrawals ==
    /\ withdrawals = {}
    /\ lastWithdrawalId = 0
    /\ withdrawalFee = <<>>
    /\ withdrawing = <<>>

\* The database the shop starts from: a provider (user 1) with one product
\* and its pool, a buyer (user 2) with money, the counter equal to the pool.
Init ==
    /\ balance = [u \in UserIds |-> IF u = 2 THEN 2000 ELSE 0]
    /\ role = [u \in UserIds |-> IF u = 1 THEN "proveedor" ELSE "Usuario"]
    /\ referredBy = [u \in UserIds |-> 0]
    /\ history = [u \in UserIds |-> <<>>]
    /\ stock \in InitPools
    /\ products = [p \in ProductIds |->
                     [stock |-> PoolSum(stock, p), creator_user_id |-> 1,
                      delivery |-> "Autoentrega",
                      duration |-> [digits |-> <<3, 0>>, unit |-> "Días"]]]
    /\ orders = <<>>
    /\ today = 0
    /\ NoWithdrawals
    /\ NoPremium
    /\ AllRegistered

\* The database the recharge desk starts from: user 2 registered with or
\* without the referral code of user 3, user 1 with the code of user 2.
InitRecharge ==
    /\ balance = [u \in UserIds |-> 0]
    /\ role \in {[u \in UserIds |-> IF u = 3 THEN r ELSE "Usuario"]
                 : r \in {"distribuidor", "Distribuidor Premium", "Usuario"}}
    /\ referredBy \in {[u \in UserIds |-> IF u = 2 THEN r ELSE IF u = 1 THEN 2 ELSE 0]
                       : r \in {0, 3}}
    /\ history = [u \in UserIds |-> <<>>]
    /\ stock = <<>>
    /\ products = [p \in ProductIds |->
                     [stock |-> 0, creator_user_id |-> 1,
                      delivery |-> "Autoentrega",
                      duration |-> [digits |-> <<3, 0>>, unit |-> "Días"]]]
    /\ orders = <<>>
    /\ today = 0
    /\ NoWithdrawals
    /\ NoPremium
    /\ AllRegistered

\* ------------------------------------------------------ POST /user/purchase

\* The rows the allocation SELECT returns: the unsold rows of the product,
\* in row-id order.
UnsoldIds(rows, productId) ==
    SelectSeq([i \in 1..Len(rows) |-> i],
              LAMBDA i : rows[i].product_id = productId /\ ~rows[i].is_sold)

\* A variant of the pass that counts a record consumed whole as one unit,
\* whatever its quantity.
AllocateRow_WholeCountsOne(acc, id, numericQty, numericUserId, productId, providerId) ==
    LET row == acc.stock[id]
        availableInRow == ParseQuantity(row.quantity)
        needed == numericQty - acc.collectedCount
        soldCopy == [row EXCEPT !.quantity = 1, !.is_sold = TRUE,
                                !.sold_to_user_id = numericUserId,
                                !.product_id = productId,
                                !.provider_user_id = providerId]
    IN  IF acc.collectedCount >= numericQty THEN acc
        ELSE IF row.status = "Sin publicar" THEN acc
        ELSE IF availableInRow > needed
        THEN [stock |-> [acc.stock EXCEPT ![id].quantity = availableInRow - needed]
                        \o [k \in 1..needed |-> soldCopy],
              credentialsList |-> acc.credentialsList
                        \o [k \in 1..needed |-> Len(acc.stock) + k],
              collectedCount |-> acc.collectedCount + needed]
        ELSE [stock |-> [acc.stock EXCEPT ![id].is_sold = TRUE,
                                          ![id].sold_to_user_id = numericUserId],
              credentialsList |-> Append(acc.credentialsList, id),
              collectedCount |-> acc.collectedCount + 1]

\* A variant of the pass that takes records whatever their status.
AllocateRow_TakesUnpublished(acc, id, numericQty, numericUserId, productId, providerId) ==
    LET row == acc.stock[id]
        availableInRow == ParseQuantity(row.quantity)
        needed == numericQty - acc.collectedCount
        soldCopy == [row EXCEPT !.quantity = 1, !.is_sold = TRUE,
                                !.sold_to_user_id = numericUserId,
                                !.product_id = productId,
                                !.provider_user_id = providerId]
    IN  IF acc.collectedCount >= numericQty THEN acc
        ELSE IF availableInRow > needed
        THEN [stock |-> [acc.stock EXCEPT ![id].quantity = availableInRow - needed]
                        \o [k \in 1..needed |-> soldCopy],
              credentialsList |-> acc.credentialsList
                        \o [k \in 1..needed |-> Len(acc.stock) + k],
              collectedCount |-> acc.collectedCount + needed]
        ELSE [stock |-> [acc.stock EXCEPT ![id].is_sold = TRUE,
                                          ![id].sold_to_user_id = numericUserId],
              credentialsList |-> Append(acc.credentialsList, id),
              collectedCount |-> acc.collectedCount + availableInRow]

\* One pass of the allocation loop over the row `id`.  acc holds the table
\* as the statements issued so far leave it, the units collected and the
\* credentials list.
AllocateRow(acc, id, numericQty, numericUserId, productId, providerId) ==
    LET row == acc.stock[id]
        availableInRow == ParseQuantity(row.quantity)
        needed == numericQty - acc.collectedCount
        soldCopy == [row EXCEPT !.quantity = 1, !.is_sold = TRUE,
                                !.sold_to_user_id = numericUserId,
                                !.product_id = productId,
                                !.provider_user_id = providerId]
    IN  IF acc.collectedCount >= numericQty THEN acc
        ELSE IF row.status = "Sin publicar" THEN acc
        ELSE IF availableInRow > needed
        THEN [stock |-> [acc.stock EXCEPT ![id].quantity = availableInRow - needed]
                        \o [k \in 1..needed |-> soldCopy],
              credentialsList |-> acc.credentialsList
                        \o [k \in 1..needed |-> Len(acc.stock) + k],
              collectedCount |-> acc.collectedCount + needed]
        ELSE [stock |-> [acc.stock EXCEPT ![id].is_sold = TRUE,
                                          ![id].sold_to_user_id = numericUserId],
              credentialsList |-> Append(acc.credentialsList, id),
              collectedCount |-> acc.collectedCount + availableInRow]

RECURSIVE AllocateLoop(_, _, _, _, _, _)
AllocateLoop(acc, ids, numericQty, numericUserId, productId, providerId) ==
    IF ids = <<>> THEN acc
    ELSE AllocateLoop(
            AllocateRow(acc, Head(ids), numericQty, numericUserId, productId,
                        providerId),
            Tail(ids), numericQty, numericUserId, productId, providerId)

Allocate(rows, numericQty, numericUserId, productId, providerId) ==
    AllocateLoop([stock |-> rows, credentialsList |-> <<>>, collectedCount |-> 0],
                 UnsoldIds(rows, productId), numericQty, numericUserId,
                 productId, providerId)

\* The HTTP status the purchase answers with.
PurchaseStatus(numericUserId, productId, numericQty, numericAmount) ==
    IF balance[numericUserId] < numericAmount THEN 400
    ELSE IF Allocate(stock, numericQty, numericUserId, productId,
                     products[productId].creator_user_id).collectedCount < numericQty
    THEN 409
    ELSE 200

\* buyerNewBalance
BuyerNewBalance(userBalance, numericAmount) == userBalance - numericAmount

\* A variant of providerNewBalance that leaves the sale out.
ProviderNewBalance_NoCredit(providerBalance, numericAmount) == providerBalance

\* providerNewBalance, from the provider's row as read after the buyer's write
ProviderNewBalance(providerBalance, numericAmount) == providerBalance + numericAmount

Purchase(numericUserId, productId, numericQty, numericAmount, delivery) ==
    LET product == products[productId]
        status == PurchaseStatus(numericUserId, productId, numericQty, numericAmount)
        providerId == product.creator_user_id
        isOrderRequest == delivery = "A pedido" \/ product.delivery = "A pedido"
        alloc == Allocate(stock, numericQty, numericUserId, productId, providerId)
        transactionId == NewId(numericUserId, history[numericUserId])
        newBuyerTransaction ==
            [Entry(transactionId, "Compra", numericAmount, "debit", "Completada")
             EXCEPT !.hasDetails = TRUE, !.productName = productId,
                    !.fullCredentials = alloc.credentialsList,
                    !.delivery = IF isOrderRequest THEN "A pedido" ELSE "Autoentrega",
                    !.purchaseDate = today, !.duration = product.duration,
                    !.expirationDate =
                        <<today + (IF Len(product.duration.digits) > 0
                                   THEN ParseInt(product.duration.digits, 10)
                                   ELSE 30)>>,
                    !.quantity = numericQty]
        \* the buyer's row is written first, the provider's row is read after it
        buyerBalance == [balance EXCEPT ![numericUserId] =
                            BuyerNewBalance(@, numericAmount)]
        buyerHistory == [history EXCEPT ![numericUserId] = <<newBuyerTransaction>> \o @]
        newProviderTransaction ==
            [Entry(NewId(providerId, buyerHistory[providerId]), "Venta",
                   numericAmount, "credit", "Completada")
             EXCEPT !.isCommission = TRUE, !.sourceUser = numericUserId,
                    !.buyerUserId = numericUserId,
                    !.buyerTransactionId = transactionId]
    IN
    /\ IF status = 400
       THEN \* 'Saldo insuficiente.'
            UNCHANGED <<balance, history, products, stock, orders>>
       ELSE IF status = 409
       THEN \* 'Stock insuficiente.'  The UPDATE statements pushed into
            \* updatesToExecute were already issued when the 409 is returned.
            /\ stock' = alloc.stock
            /\ UNCHANGED <<balance, history, products, orders>>
       ELSE /\ Len(history[numericUserId])
                 + (IF providerId = numericUserId THEN 2 ELSE 1) <= MaxLedger
            /\ Len(history[providerId]) < MaxLedger
            /\ Len(alloc.stock) <= MaxStock
            /\ stock' = alloc.stock
            /\ products' = [products EXCEPT ![productId].stock = @ - numericQty]
            /\ balance' = [buyerBalance EXCEPT ![providerId] =
                             ProviderNewBalance(@, numericAmount)]
            /\ history' = [buyerHistory EXCEPT
                             ![providerId] = <<newProviderTransaction>> \o @]
            /\ orders' = IF isOrderRequest
                         THEN Append(orders,
                                [purchase_id |-> transactionId,
                                 buyer_user_id |-> numericUserId,
                                 provider_user_id |-> providerId,
                                 product_id |-> productId,
                                 quantity |-> numericQty, status |-> "Pending"])
                         ELSE orders   \* 200 "Compra realizada"
    /\ UNCHANGED <<username, inFlight, users, premiumExpiresAt, role, referredBy, today, withdrawVars>>

\* ------------------------------------------------ ledger lookups (helpers)

\* Array.prototype.findIndex / find: the first of the indices `matches`
\* (those whose entry passes the test), 0 if there is none.
FindIndex(matches) ==
    IF matches = {} THEN 0
    ELSE CHOOSE i \in matches : \A j \in matches : i <= j

\* The indices of the ledger h whose entry has the id `id`.
WithId(h, id) == {i \in 1..Len(h) : h[i].id = id}

\* The indices of the ledger h whose entry has the id and the status.
WithIdAndStatus(h, id, status) ==
    {i \in WithId(h, id) : h[i].status = status}

\* `for (const user of allUsersResult.rows) { ... break }`: the first of the
\* users `matches` (those whose ledger holds a matching entry), in id
\* order; 0 if there is none.
FirstUserWith(matches) ==
    IF matches = {} THEN 0
    ELSE CHOOSE u \in matches : \A v \in matches : u <= v

\* ------------------------------------------------ POST /user/send-to-support

SendToSupport(userId, transactionId) ==
    LET h == history[userId]
        i == FindIndex(WithId(h, transactionId))
    IN
    /\ IF i = 0
       THEN /\ UNCHANGED history   \* 404 "Transacción no encontrada"
       ELSE /\ history' = [history EXCEPT ![userId][i] =
                              \* 200 "Solicitud de soporte enviada"
                              [@ EXCEPT !.status = "Soporte", !.hasDetails = TRUE]]
    /\ UNCHANGED <<username, inFlight, users, premiumExpiresAt, balance, role, referredBy, products, stock, orders, today, withdrawVars>>

\* ---------------------------------------------- POST /supplier/handle-support

\* totalDays of the refund: the number in a "<n> Días" label, 30 otherwise.
TotalDays(duration) ==
    IF duration.unit = "Días" /\ duration.digits # <<>>
    THEN ParseInt(duration.digits, 16) ELSE 30

\* amountToRefund, in cents.
ProportionalAmount(targetTx, now) ==
    LET safeTotalDays == Max(1, TotalDays(targetTx.duration))
        daysUsed == now - targetTx.purchaseDate
        daysRemaining == Max(0, safeTotalDays - daysUsed)
    IN  RoundDiv(daysRemaining * targetTx.amount, safeTotalDays)

\* `UPDATE product_stock SET is_sold = 0, sold_to_user_id = NULL ... WHERE id IN (ids)`
RestoreRows(rows, ids) ==
    [i \in 1..Len(rows) |->
        IF \E k \in 1..Len(ids) : ids[k] = i
        THEN [rows[i] EXCEPT !.is_sold = FALSE, !.sold_to_user_id = 0]
        ELSE rows[i]]

\* what the refund branch adds to the product's counter
RestoredCount(targetTx) == Len(targetTx.fullCredentials)

\* A variant of newBalance that credits the refund twice.
RefundNewBalance_Twice(currentBalance, amountToRefund) ==
    currentBalance + 2 * amountToRefund

\* newBalance of the refund branch
RefundNewBalance(currentBalance, amountToRefund) ==
    currentBalance + amountToRefund

HandleSupport(purchaseId, action) ==
    LET targetUserId ==
            FirstUserWith({u \in UserIds :
                              WithIdAndStatus(history[u], purchaseId, "Soporte") # {}})
        userHistory == history[targetUserId]
        targetTx == userHistory[FindIndex(
                        WithIdAndStatus(userHistory, purchaseId, "Soporte"))]
        amountToRefund == ProportionalAmount(targetTx, today)
        updateTransaction(newStatus) ==
            [k \in 1..Len(userHistory) |-> LET tx == userHistory[k] IN
                IF tx.id = purchaseId
                THEN [tx EXCEPT !.status = newStatus, !.hasDetails = TRUE] ELSE tx]
        refundTx == Entry(NewId(targetUserId, userHistory), "Reembolso",
                          amountToRefund, "credit", "Completada")
        stockIds == SelectSeq(targetTx.fullCredentials, LAMBDA id : id # 0)
        restores == /\ Len(targetTx.fullCredentials) > 0
                    /\ targetTx.delivery # "A pedido"
                    /\ Len(stockIds) > 0
    IN
    /\ IF targetUserId = 0
       THEN /\ UNCHANGED <<balance, history, products, stock>>
       ELSE IF action # "refund"
       THEN /\ history' = [history EXCEPT ![targetUserId] = updateTransaction("Completada")]
            /\ UNCHANGED <<balance, products, stock>>
       ELSE IF targetTx.purchaseDate < 0
       THEN \* details.purchaseDate is undefined: .split throws, the handler answers 500
            /\ UNCHANGED <<balance, history, products, stock>>
       ELSE IF amountToRefund <= 0
       THEN /\ UNCHANGED <<balance, history, products, stock>>  \* 400 "No hay monto para devolver"
       ELSE /\ Len(userHistory) < MaxLedger
            /\ stock' = IF restores THEN RestoreRows(stock, stockIds) ELSE stock
            /\ products' = IF restores /\ targetTx.productName \in ProductIds
                           THEN [products EXCEPT ![targetTx.productName].stock =
                                    @ + RestoredCount(targetTx)]
                           ELSE products
            /\ balance' = [balance EXCEPT ![targetUserId] =
                             RefundNewBalance(@, amountToRefund)]
            /\ history' = [history EXCEPT ![targetUserId] =
                              \* 200 "Devuelto"
                              <<refundTx>> \o updateTransaction("Devuelto")]
    /\ UNCHANGED <<username, inFlight, users, premiumExpiresAt, role, referredBy, orders, today, withdrawVars>>

\* ------------------------------------------------------ POST /supplier/refund

SupplierRefund(stockId, refundAmount) ==
    LET row == stock[stockId]
        buyerId == row.sold_to_user_id
        productId == row.product_id
        providerId == row.provider_user_id
        buyerTx == Entry(NewId(buyerId, history[buyerId]), "Reembolso",
                         refundAmount, "credit", "Devuelto")
        \* buyer row written first, provider row read after it
        buyerBalance == [balance EXCEPT ![buyerId] = @ + refundAmount]
        buyerHistory == [history EXCEPT ![buyerId] = <<buyerTx>> \o @]
        providerTx == [Entry(NewId(providerId, buyerHistory[providerId]), "DEVOLUCIÓN",
                             refundAmount, "debit", "Completada")
                       EXCEPT !.isRefund = TRUE]
    IN
    /\ IF stockId \notin 1..Len(stock)
       THEN /\ UNCHANGED <<balance, history, products, stock>>   \* 404 "No encontrado"
       ELSE IF buyerId = 0
       THEN \* no buyer row: user.balance throws, the handler answers 500
            /\ UNCHANGED <<balance, history, products, stock>>
       ELSE /\ Len(history[buyerId]) + (IF providerId = buyerId THEN 2 ELSE 1)
                 <= MaxLedger
            /\ Len(history[providerId]) < MaxLedger
            /\ balance' = [buyerBalance EXCEPT ![providerId] = @ - refundAmount]
            /\ history' = [buyerHistory EXCEPT ![providerId] = <<providerTx>> \o @]
            /\ stock' = [stock EXCEPT ![stockId].is_sold = FALSE,
                                      ![stockId].sold_to_user_id = 0]
            \* 200 "Reembolso exitoso"
            /\ products' = [products EXCEPT ![productId].stock = @ + 1]
    /\ UNCHANGED <<username, inFlight, users, premiumExpiresAt, role, referredBy, orders, today, withdrawVars>>

\* ----------------------------------------- POST /supplier/refund/proportional

\* provHistory as stored by the first UPDATE: the debit on top of the
\* provider's ledger.
ProvHistory(numericProviderId, numericAmount) ==
    <<[Entry(NewId(numericProviderId, history[numericProviderId]),
             "REEMBOLSO", numericAmount, "debit", "Completada")
       EXCEPT !.isRefund = TRUE]>> \o history[numericProviderId]

RefundProportional(numericBuyerId, buyerTransactionId, numericAmount, numericProviderId) ==
    LET buyerHistory == history[numericBuyerId]
        targetTxIndex == FindIndex({i \in WithId(buyerHistory, buyerTransactionId) :
                                        buyerHistory[i].type = "debit"})
        targetTx == buyerHistory[targetTxIndex]
        refundCreditTx ==
            [Entry(NewId(numericBuyerId, buyerHistory), "REEMBOLSO RECIBIDO",
                   numericAmount, "credit", "Completada")
             EXCEPT !.isRefund = TRUE]
        \* A. the provider's row is written ...
        provBalance == [balance EXCEPT ![numericProviderId] = @ - numericAmount]
        provHistoryW == [history EXCEPT ![numericProviderId] =
                            ProvHistory(numericProviderId, numericAmount)]
        \* B. ... then the buyer's row, from the values read at the start
        newBuyerHistory ==
            <<refundCreditTx>> \o
            [buyerHistory EXCEPT ![targetTxIndex] =
                [@ EXCEPT !.status = "Devuelto", !.hasDetails = TRUE]]
    IN
    /\ IF targetTxIndex = 0
       THEN /\ UNCHANGED <<balance, history>>   \* 404 "La transacción no existe"
       ELSE IF targetTx.status = "Devuelto"
       THEN /\ UNCHANGED <<balance, history>>   \* 400 "Ya fue reembolsada"
       ELSE IF balance[numericProviderId] < numericAmount
       THEN /\ UNCHANGED <<balance, history>>   \* 400 "Saldo insuficiente"
       ELSE /\ Len(buyerHistory) < MaxLedger
            /\ Len(history[numericProviderId]) < MaxLedger
            /\ balance' = [provBalance EXCEPT
                             ![numericBuyerId] = balance[numericBuyerId] + numericAmount]
            \* 200 "Reembolso procesado"
            /\ history' = [provHistoryW EXCEPT ![numericBuyerId] = newBuyerHistory]
    /\ UNCHANGED <<username, inFlight, users, premiumExpiresAt, role, referredBy, products, stock, orders, today, withdrawVars>>

\* ------------------------------------------------ POST /supplier/support/fix

\* newCredentials is absent (hasNew = FALSE) or a list of replacement credentials.
SupportFix(purchaseId, hasNew, newCredentials) ==
    LET targetUserId ==
            FirstUserWith({u \in UserIds : WithId(history[u], purchaseId) # {}})
        userHistory == history[targetUserId]
    IN
    /\ IF targetUserId = 0
       THEN /\ UNCHANGED history   \* 404 "Transacción no encontrada"
       ELSE /\ history' = [history EXCEPT ![targetUserId] =
                [k \in 1..Len(userHistory) |-> LET tx == userHistory[k] IN
                    IF tx.id = purchaseId
                    THEN [tx EXCEPT !.status = "Esperando aprobación",
                                    !.hasDetails = TRUE,
                                    !.hasProposed = hasNew,
                                    !.proposedCredentials =
                                        IF hasNew THEN newCredentials ELSE <<>>]
                    ELSE tx]]   \* 200 "Corrección enviada"
    /\ UNCHANGED <<username, inFlight, users, premiumExpiresAt, balance, role, referredBy, products, stock, orders, today, withdrawVars>>

\* ------------------------------------------------ POST /user/support/approve

SupportApprove(userId, purchaseId) ==
    LET h == history[userId]
        Awaiting(tx) == tx.id = purchaseId /\ tx.status = "Esperando aprobación"
    IN
    /\ IF FindIndex(WithIdAndStatus(h, purchaseId, "Esperando aprobación")) = 0
       THEN /\ UNCHANGED history   \* 400 "Transacción no válida para aprobación"
       ELSE /\ history' = [history EXCEPT ![userId] =
                [k \in 1..Len(h) |-> LET tx == h[k] IN
                    IF Awaiting(tx)
                    THEN [tx EXCEPT !.status = "Completada",
                                    !.fullCredentials =
                                        IF tx.hasProposed THEN tx.proposedCredentials
                                        ELSE tx.fullCredentials,
                                    !.hasProposed = FALSE,
                                    !.proposedCredentials = <<>>]
                    ELSE tx]]   \* 200 "Corrección aprobada"
    /\ UNCHANGED <<username, inFlight, users, premiumExpiresAt, balance, role, referredBy, products, stock, orders, today, withdrawVars>>

\* --------------------------------------------------- POST /transaction/record

\* The client records its recharge request: a Pending credit of `amount`.
TransactionRecord(userId, amount) ==
    /\ Len(history[userId]) < MaxLedger
    /\ Cardinality({i \in 1..Len(history[userId]) :
                        history[userId][i].description = "Recarga"}) < MaxRecharges
    /\ history' = [history EXCEPT ![userId] =
                     <<Entry(NewId(userId, history[userId]), "Recarga", amount,
                             \* 200 "Transacción registrada"
                             "credit", "Pendiente")>> \o @]
    /\ UNCHANGED <<username, inFlight, users, premiumExpiresAt, balance, role, referredBy, products, stock, orders, today, withdrawVars>>

\* -------------------------------------------- POST /admin/transaction/approve

\* A variant of the rate table without the provider's 10%.
CommissionRate_NoProveedor(referrerRole) ==
    IF referrerRole = "Distribuidor Premium" THEN 15
    ELSE IF referrerRole = "distribuidor" THEN 10
    ELSE 0

\* commissionRate, in percent, by the referrer's role.
CommissionRate(referrerRole) ==
    IF referrerRole = "Distribuidor Premium" THEN 15
    ELSE IF referrerRole = "distribuidor" \/ referrerRole = "proveedor" THEN 10
    ELSE 0

\* parseFloat((amountToAdd * commissionRate).toFixed(2)), in cents.
Commission(amountToAdd, referrerRole) ==
    RoundDiv(amountToAdd * CommissionRate(referrerRole), 100)

\* hasPreviousRecharges
HasPreviousRecharges(h) ==
    \E i \in 1..Len(h) : h[i].status = "Completada" /\ h[i].type = "credit"

TransactionApprove(userId, transactionId) ==
    LET h == history[userId]
        referrerId == referredBy[userId]
        isFirstRecharge == ~HasPreviousRecharges(h)
        Pending(tx) == tx.id = transactionId /\ tx.status = "Pendiente"
        \* amountToAdd is the amount of the last matching entry the map visits
        matches == {i \in 1..Len(h) : Pending(h[i])}
        amountToAdd == h[CHOOSE i \in matches : \A j \in matches : j <= i].amount
        updatedHistory == [k \in 1..Len(h) |-> LET tx == h[k] IN
                              IF Pending(tx) THEN [tx EXCEPT !.status = "Completada"]
                              ELSE tx]
        \* 3. the user's row is written, then the referrer's row is read
        userBalance == [balance EXCEPT ![userId] = @ + amountToAdd]
        userHistoryW == [history EXCEPT ![userId] = updatedHistory]
        commission == Commission(amountToAdd, role[referrerId])
        commissionTx ==
            [Entry(NewId(referrerId, userHistoryW[referrerId]), "Comisión",
                   commission, "credit", "Completada")
             EXCEPT !.isCommission = TRUE, !.sourceUser = userId]
        pays == referrerId # 0 /\ isFirstRecharge /\ commission > 0
    IN
    /\ IF matches = {}
       THEN /\ UNCHANGED <<balance, history>>  \* 404 "Transacción no encontrada o ya procesada"
       ELSE /\ pays => Len(userHistoryW[referrerId]) < MaxLedger
            /\ balance' = IF pays
                          THEN [userBalance EXCEPT ![referrerId] = @ + commission]
                          ELSE userBalance
            /\ history' = IF pays
                          THEN [userHistoryW EXCEPT ![referrerId] = <<commissionTx>> \o @]
                          ELSE userHistoryW   \* 200 "Transacción aprobada"
    /\ UNCHANGED <<username, inFlight, users, premiumExpiresAt, role, referredBy, products, stock, orders, today, withdrawVars>>

\* --------------------------------------------- POST /admin/transaction/reject

TransactionReject(userId, transactionId) ==
    LET h == history[userId]
        Pending(tx) == tx.id = transactionId /\ tx.status = "Pendiente"
    IN
    /\ IF FindIndex(WithIdAndStatus(h, transactionId, "Pendiente")) = 0
       THEN /\ UNCHANGED history   \* 404 "Transacción no encontrada o ya procesada"
       ELSE /\ history' = [history EXCEPT ![userId] =
                [k \in 1..Len(h) |-> LET tx == h[k] IN
                    \* 200 "Transacción rechazada"
                    IF Pending(tx) THEN [tx EXCEPT !.status = "Rechazada"] ELSE tx]]
    /\ UNCHANGED <<username, inFlight, users, premiumExpiresAt, balance, role, referredBy, products, stock, orders, today, withdrawVars>>

\* --------------------------------------------------- POST /transaction/cancel

TransactionCancel(userId, transactionId) ==
    LET h == history[userId]
        i == FindIndex(WithId(h, transactionId))
    IN
    /\ IF i = 0
       THEN /\ UNCHANGED history   \* 404 "Transacción no encontrada en el historial"
       ELSE IF h[i].status # "Pendiente"
       THEN /\ UNCHANGED history   \* 400 "No puede ser cancelada"
       ELSE /\ history' = [history EXCEPT ![userId] =
                [k \in 1..Len(h) |-> LET tx == h[k] IN
                    IF tx.id = transactionId THEN [tx EXCEPT !.status = "Cancelada"]
                    ELSE tx]]   \* 200 "Transacción cancelada"
    /\ UNCHANGED <<username, inFlight, users, premiumExpiresAt, balance, role, referredBy, products, stock, orders, today, withdrawVars>>

\* ------------------------------------------------- POST /admin/user/update

\* The roles the handler accepts as newRole.
ValidNewRoles == {"Usuario", "Distribuidor Premium", "Admin", "distribuidor",
                  "proveedor", "Proveedor Premium"}

\* hasChange / hasRole say whether balanceChange / newRole are in the body.
AdminUserUpdate(userId, hasChange, change, hasRole, newRole) ==
    /\ hasChange => (balance[userId] + change) \in -MaxBalance..MaxBalance
    /\ IF hasRole /\ newRole \notin ValidNewRoles
       THEN /\ UNCHANGED <<balance, role>>   \* 400 "Rol inválido"
       ELSE IF ~hasChange /\ ~hasRole
       THEN /\ UNCHANGED <<balance, role>>   \* 400 "No se proporcionaron campos"
       ELSE /\ balance' = IF hasChange
                          THEN [balance EXCEPT ![userId] = @ + change] ELSE balance
            \* 200 "Usuario actualizado"
            /\ role' = IF hasRole THEN [role EXCEPT ![userId] = newRole] ELSE role
    /\ UNCHANGED <<username, inFlight, users, premiumExpiresAt, referredBy, history, products, stock, orders, today, withdrawVars>>

\* ------------------------------------------------------------ the calendar

\* The clock reaches the next day of the model's calendar.
AdvanceDay ==
    /\ \E d \in CalendarDays : d > today
    /\ today' = CHOOSE d \in CalendarDays :
                    d > today /\ \A e \in CalendarDays : e > today => d <= e
    /\ UNCHANGED <<username, inFlight, users, premiumExpiresAt, balance, role, referredBy, history, products, stock, orders,
                   withdrawVars>>

\* ---------------------------------------------------- POST /supplier/withdraw

\* Amounts are cents and fee rates thousandths.  The amounts requested are
\* whole tens, so amount * rate is a whole number of cents and toFixed(2)
\* leaves requested and available as they are.
WithdrawAmounts == {10000, 20000}
Withdrawers == {1, 2}
FeeInputs == {2004, 20000}
WithdrawActions == {"approve", "reject"}

\* The bounds of the withdrawal desk.
MaxWithdrawals == 3
MaxOverlap == 2

\* The rate used when no withdrawal_fee is stored: 0.10
DefaultWithdrawalFee == 100

\* commissionRate, in thousandths
WithdrawalFeeRate(feeRows) ==
    IF Len(feeRows) > 0 THEN feeRows[1] ELSE DefaultWithdrawalFee

\* `SELECT id FROM withdrawals WHERE user_id = ? AND status = 'Pending'`
PendingOf(rows, userId) ==
    {w \in rows : w.user_id = userId /\ w.status = "Pending"}

\* A variant of finalAmount that keeps no fee.
FinalAmount_NoFee(numericAmount, commissionRate) == numericAmount

\* finalAmount = numericAmount - numericAmount * commissionRate
FinalAmount(numericAmount, commissionRate) ==
    numericAmount - (numericAmount * commissionRate) \div 1000

\* `INSERT INTO withdrawals (user_id, amount_original, amount_final, status)`
InsertWithdrawal(rows, lastId, userId, numericAmount, commissionRate) ==
    rows \cup {[id |-> lastId + 1, user_id |-> userId,
                amount_original |-> numericAmount,
                amount_final |-> FinalAmount(numericAmount, commissionRate),
                status |-> "Pending"]}

\* The request is refused by one of the checks made on what it reads.
WithdrawRefused(userId, numericAmount) ==
    \/ numericAmount <= 0                        \* 400 "Monto de retiro inválido"
    \/ PendingOf(withdrawals, userId) # {}       \* 400 "Ya tienes una solicitud en proceso"
    \/ userId \notin UserIds                     \* 404 "Usuario no encontrado"
    \/ numericAmount > balance[userId]           \* 400 "Monto insuficiente"

\* The whole handler, no other request running between its reads and writes.
Withdraw(userId, numericAmount) ==
    LET currentBalance == balance[userId]
        commissionRate == WithdrawalFeeRate(withdrawalFee)
        newBalance == currentBalance - numericAmount
    IN
    /\ withdrawing = <<>>
    /\ IF WithdrawRefused(userId, numericAmount)
       THEN /\ UNCHANGED <<balance, withdrawals, lastWithdrawalId>>
       ELSE /\ lastWithdrawalId < MaxWithdrawals
            /\ withdrawals' = InsertWithdrawal(withdrawals, lastWithdrawalId, userId,
                                               numericAmount, commissionRate)
            /\ lastWithdrawalId' = lastWithdrawalId + 1
            \* 200 "Solicitud enviada"
            /\ balance' = [balance EXCEPT ![userId] = newBalance]
    /\ UNCHANGED <<username, inFlight, users, premiumExpiresAt, role, referredBy, history, products, stock, orders, today,
                   withdrawalFee, withdrawing>>

\* The handler up to its last read (steps A, B and the fee): the checks are
\* made, and the request waits for its INSERT with what it read.
WithdrawRead(userId, numericAmount) ==
    /\ Len(withdrawing) < MaxOverlap
    /\ withdrawing' =
          IF WithdrawRefused(userId, numericAmount)
          THEN withdrawing
          ELSE Append(withdrawing,
                      [userId |-> userId, numericAmount |-> numericAmount,
                       currentBalance |-> balance[userId],
                       commissionRate |-> WithdrawalFeeRate(withdrawalFee)])
    /\ UNCHANGED <<username, inFlight, users, premiumExpiresAt, balance, role, referredBy, history, products, stock, orders,
                   today, withdrawals, lastWithdrawalId, withdrawalFee>>

\* The handler from its INSERT on (steps D and E), for the waiting request k.
WithdrawWrite(k) ==
    LET request == withdrawing[k]
        newBalance == request.currentBalance - request.numericAmount
    IN
    /\ k \in 1..Len(withdrawing)
    /\ lastWithdrawalId < MaxWithdrawals
    /\ withdrawals' = InsertWithdrawal(withdrawals, lastWithdrawalId, request.userId,
                                       request.numericAmount, request.commissionRate)
    /\ lastWithdrawalId' = lastWithdrawalId + 1
    /\ balance' = [balance EXCEPT ![request.userId] = newBalance]
    /\ withdrawing' = SubSeq(withdrawing, 1, k - 1)
                        \o SubSeq(withdrawing, k + 1, Len(withdrawing))
    /\ UNCHANGED <<username, inFlight, users, premiumExpiresAt, role, referredBy, history, products, stock, orders, today,
                   withdrawalFee>>

\* ------------------------------------------ POST /admin/settings/withdrawal-fee

\* fee is the rate in ten-thousandths; toFixed(3) stores it in thousandths.
SetWithdrawalFee(numericFee) ==
    /\ withdrawalFee' = IF numericFee < 0 \/ numericFee > 10000
                        THEN withdrawalFee        \* 400 "Tasa de comisión inválida"
                        ELSE <<RoundDiv(numericFee, 10)>>
    /\ UNCHANGED <<username, inFlight, users, premiumExpiresAt, balance, role, referredBy, history, products, stock, orders,
                   today, withdrawals, lastWithdrawalId, withdrawing>>

\* --------------------------------------------- POST /supplier/withdraw/cancel

\* A variant of the cancel that gives nothing back.
CancelledNewBalance_Kept(currentBalance, amountToReturn) == currentBalance

\* `UPDATE users SET balance = balance + ?` of the cancel
CancelledNewBalance(currentBalance, amountToReturn) ==
    currentBalance + amountToReturn

WithdrawCancel(withdrawalId, userId) ==
    LET wRes == {w \in PendingOf(withdrawals, userId) : w.id = withdrawalId}
        amountToReturn == (CHOOSE w \in wRes : TRUE).amount_original
    IN
    /\ IF wRes = {}
       THEN /\ UNCHANGED <<balance, withdrawals>>     \* 400 "No se puede cancelar"
       ELSE /\ withdrawals' = {w \in withdrawals : w.id # withdrawalId}
            \* 200 "Solicitud cancelada"
            /\ balance' = [balance EXCEPT ![userId] =
                             CancelledNewBalance(@, amountToReturn)]
    /\ UNCHANGED <<username, inFlight, users, premiumExpiresAt, role, referredBy, history, products, stock, orders, today,
                   lastWithdrawalId, withdrawalFee, withdrawing>>

\* ----------------------------------------------- POST /admin/withdraw/manage

\* `UPDATE withdrawals SET status = ? WHERE id = ?`
SetWithdrawalStatus(rows, withdrawalId, status) ==
    {IF w.id = withdrawalId THEN [w EXCEPT !.status = status] ELSE w : w \in rows}

\* A variant of the approval's ledger entry amount: the gross amount.
ApprovedDebitAmount_Gross(withdrawal) == withdrawal.amount_original

\* The amount of the approval's ledger entry.
ApprovedDebitAmount(withdrawal) == withdrawal.amount_final

\* A variant of the rejection that gives the gross amount back twice.
RejectedNewBalance_Twice(currentBalance, withdrawal) ==
    currentBalance + 2 * withdrawal.amount_original

\* `UPDATE users SET balance = balance + ?` of the rejection
RejectedNewBalance(currentBalance, withdrawal) ==
    currentBalance + withdrawal.amount_original

\* A variant of the check that lets an approved withdrawal through.
AlreadyProcessed_OnlyRejected(withdrawal) == withdrawal.status = "Rejected"

\* The check that the request is still pending.
AlreadyProcessed(withdrawal) == withdrawal.status # "Pending"

WithdrawManage(withdrawalId, action) ==
    LET wRes == {w \in withdrawals : w.id = withdrawalId}
        withdrawal == CHOOSE w \in wRes : TRUE
        providerHistory == history[withdrawal.user_id]
        approvedTx ==
            [Entry(NewId(withdrawal.user_id, providerHistory),
                   "RETIRO DE FONDOS APROBADO", ApprovedDebitAmount(withdrawal),
                   "debit", "Completada")
             EXCEPT !.isWithdrawal = TRUE]
        rejectedTx ==
            [Entry(NewId(withdrawal.user_id, providerHistory),
                   "RETIRO RECHAZADO", withdrawal.amount_original,
                   "credit", "Completada")
             EXCEPT !.isWithdrawalRefund = TRUE]
    IN
    /\ IF wRes = {}
       THEN /\ UNCHANGED <<balance, history, withdrawals>>   \* 404 "Retiro no encontrado"
       ELSE IF AlreadyProcessed(withdrawal)
       THEN /\ UNCHANGED <<balance, history, withdrawals>>   \* 400 "Ya fue procesado"
       ELSE IF action = "approve"
       THEN /\ Len(providerHistory) < MaxLedger
            /\ withdrawals' = SetWithdrawalStatus(withdrawals, withdrawalId, "Approved")
            /\ history' = [history EXCEPT ![withdrawal.user_id] = <<approvedTx>> \o @]
            /\ UNCHANGED balance
       ELSE IF action = "reject"
       THEN /\ Len(providerHistory) < MaxLedger
            /\ withdrawals' = SetWithdrawalStatus(withdrawals, withdrawalId, "Rejected")
            /\ balance' = [balance EXCEPT ![withdrawal.user_id] =
                             RejectedNewBalance(@, withdrawal)]
            /\ history' = [history EXCEPT ![withdrawal.user_id] = <<rejectedTx>> \o @]
       ELSE /\ UNCHANGED <<balance, history, withdrawals>>   \* 200, nothing done
    /\ UNCHANGED <<username, inFlight, users, premiumExpiresAt, role, referredBy, products, stock, orders, today,
                   lastWithdrawalId, withdrawalFee, withdrawing>>

\* The ids a withdrawal request may name: those ever given out.
WithdrawalIds == 1..lastWithdrawalId

\* ------------------------------------------------------ checkAndExpirePremium

\* The model's clock counts days, and a month is this many of them.
DaysPerMonth == 30

\* date.setMonth(date.getMonth() + months)
AddMonths(day, months) == day + months * DaysPerMonth

\* `user.premium_expires_at` is set and `now > expirationDate`
PremiumExpired(expiresAt, now) == Len(expiresAt) > 0 /\ now > expiresAt[1]

\* A variant of the demotion that sends every role to 'Usuario'.
DemotedRole_AlwaysUsuario(storedRole) == "Usuario"

\* newRole of checkAndExpirePremium
DemotedRole(storedRole) ==
    IF storedRole = "Proveedor Premium" THEN "proveedor"
    ELSE IF storedRole = "Distribuidor Premium" THEN "distribuidor"
    ELSE "Usuario"

\* The role checkAndExpirePremium returns for user u.
ResolvedRole(u) ==
    IF PremiumExpired(premiumExpiresAt[u], today)
    THEN DemotedRole(role[u]) ELSE role[u]

\* What checkAndExpirePremium writes for user u.
CheckAndExpirePremium(u) ==
    IF PremiumExpired(premiumExpiresAt[u], today)
    THEN /\ role' = [role EXCEPT ![u] = DemotedRole(@)]
         /\ premiumExpiresAt' = [premiumExpiresAt EXCEPT ![u] = <<>>]
    ELSE UNCHANGED <<role, premiumExpiresAt>>

\* ------------------------------------------------------- GET /profile/:userId

GetProfile(userId) ==
    /\ CheckAndExpirePremium(userId)
    /\ UNCHANGED <<username, inFlight, users, balance, referredBy, history, products, stock, orders, today,
                   withdrawVars>>

\* ---------------------------------------------------------------- POST /login

\* A login of user userId with the right password.
Login(userId) ==
    /\ CheckAndExpirePremium(userId)
    /\ UNCHANGED <<username, inFlight, users, balance, referredBy, history, products, stock, orders, today,
                   withdrawVars>>

\* --------------------------------------------- POST /user/upgrade-to-premium

PremiumUsers == {1, 2}
PremiumPrices == {1000}
PremiumMonths == {1, 2}

\* A variant of targetRole that knows no provider.
TargetRole_NoProveedor(currentRole) == "Distribuidor Premium"

\* targetRole
TargetRole(currentRole) ==
    IF currentRole = "proveedor" \/ currentRole = "Proveedor Premium"
    THEN "Proveedor Premium" ELSE "Distribuidor Premium"

\* A variant of newExpirationDate that always starts from now.
NewExpirationDate_FromNow(currentRole, expiresAt, now, numericMonths) ==
    AddMonths(now, numericMonths)

\* newExpirationDate
NewExpirationDate(currentRole, expiresAt, now, numericMonths) ==
    IF currentRole = TargetRole(currentRole) /\ Len(expiresAt) > 0
    THEN IF expiresAt[1] > now
         THEN AddMonths(expiresAt[1], numericMonths)
         ELSE AddMonths(now, numericMonths)
    ELSE AddMonths(now, numericMonths)

UpgradeToPremium(numericUserId, numericAmount, numericMonths) ==
    LET targetRole == TargetRole(role[numericUserId])
        formattedExpiration ==
            NewExpirationDate(role[numericUserId], premiumExpiresAt[numericUserId],
                              today, numericMonths)
        newBalance == balance[numericUserId] - numericAmount
        currentHistory == history[numericUserId]
        transaction ==
            [Entry(NewId(numericUserId, currentHistory), "Compra Membresía",
                   numericAmount, "debit", "Completada")
             EXCEPT !.hasDetails = TRUE, !.purchaseDate = today,
                    !.months = numericMonths,
                    !.expirationDate = <<formattedExpiration>>]
    IN
    /\ IF balance[numericUserId] < numericAmount
       THEN /\ UNCHANGED <<balance, role, premiumExpiresAt, history>>  \* 400 "Saldo insuficiente"
       ELSE /\ Len(currentHistory) < MaxLedger
            /\ balance' = [balance EXCEPT ![numericUserId] = newBalance]
            /\ role' = [role EXCEPT ![numericUserId] = targetRole]
            /\ premiumExpiresAt' =
                  [premiumExpiresAt EXCEPT ![numericUserId] = <<formattedExpiration>>]
            \* 200 "Membresía activada"
            /\ history' = [history EXCEPT ![numericUserId] = <<transaction>> \o @]
    /\ UNCHANGED <<username, inFlight, users, referredBy, products, stock, orders, today, withdrawVars>>

\* -------------------------------------------------- POST /user/apply-supplier

\* Costo del rango: 7.50
SUPPLIER_COST == 750

\* The referral codes a request may carry: the system's code in either case,
\* the codes of users 1 and 2, and a code nobody has.
ReferralCodes == {"BLD231", "bld231", "U1", "U2", "X0"}

\* referralCode.toUpperCase()
ToUpperCase(code) == IF code = "bld231" THEN "BLD231" ELSE code

\* `SELECT id FROM users WHERE referral_code = ?` (0 = no row)
ReferrerOf(normalizedCode) ==
    IF normalizedCode = "U1" THEN 1
    ELSE IF normalizedCode = "U2" THEN 2
    ELSE 0

\* The request is refused before the balance is looked at.
ReferralRefused(numericUserId, normalizedCode) ==
    /\ normalizedCode # "BLD231"
    /\ \/ ReferrerOf(normalizedCode) = 0                \* 400 "Código de referido no existe"
       \/ ReferrerOf(normalizedCode) = numericUserId    \* 400 "No puedes usar tu propio código"

\* A variant of the balance check that lets everybody through.
CannotPaySupplierCost_Never(currentBalance) == FALSE

\* currentBalance < SUPPLIER_COST
CannotPaySupplierCost(currentBalance) == currentBalance < SUPPLIER_COST

ApplySupplier(numericUserId, referralCode) ==
    LET normalizedCode == ToUpperCase(referralCode)
        referrerId == IF normalizedCode = "BLD231" THEN 0 ELSE ReferrerOf(normalizedCode)
        currentBalance == balance[numericUserId]
        newBalance == currentBalance - SUPPLIER_COST
        currentHistory == history[numericUserId]
        purchaseTx ==
            [Entry(NewId(numericUserId, currentHistory), "Compra Rango Distribuidor",
                   SUPPLIER_COST, "debit", "Completada")
             EXCEPT !.hasDetails = TRUE, !.purchaseDate = today]
    IN
    /\ IF ReferralRefused(numericUserId, normalizedCode)
       THEN /\ UNCHANGED <<balance, history, role, referredBy>>
       ELSE IF CannotPaySupplierCost(currentBalance)
       THEN /\ UNCHANGED <<balance, history, role, referredBy>>   \* 400 "Saldo insuficiente"
       ELSE /\ Len(currentHistory) < MaxLedger
            /\ balance' = [balance EXCEPT ![numericUserId] = newBalance]
            /\ history' = [history EXCEPT ![numericUserId] = <<purchaseTx>> \o @]
            \* 200 "Solicitud y pago procesados"
            /\ role' = [role EXCEPT ![numericUserId] = "Pending"]
            /\ referredBy' = [referredBy EXCEPT ![numericUserId] = referrerId]
    /\ UNCHANGED <<username, inFlight, users, premiumExpiresAt, products, stock, orders, today, withdrawVars>>

\* ----------------------------------------------- POST /user/purchase/renovate

\* The day renewals start from: the expiry recorded in the entry if it is a
\* d/m/yyyy date still ahead, otherwise now.  The expiry of a membership
\* entry is written in another format and is not read.
StartRenewalDate(targetTx, now) ==
    IF /\ Len(targetTx.expirationDate) > 0
       /\ targetTx.description # "Compra Membresía"
       /\ targetTx.expirationDate[1] > now
    THEN targetTx.expirationDate[1] ELSE now

\* A variant of updatedHistory that puts the renewal on top.
InsertRenovation_OnTop(h, purchaseId, newExpiry, renovationTx) ==
    <<renovationTx>> \o
    [k \in 1..Len(h) |->
        IF h[k].id = purchaseId
        THEN [h[k] EXCEPT !.expirationDate = newExpiry] ELSE h[k]]

\* updatedHistory: history.map(tx => matches ? [tx, renovationTx] : tx).flat(),
\* ids being unique in a ledger
InsertRenovation(h, purchaseId, newExpiry, renovationTx) ==
    LET i == FindIndex(WithId(h, purchaseId)) IN
    [k \in 1..(Len(h) + 1) |->
        IF k < i THEN h[k]
        ELSE IF k = i THEN [h[k] EXCEPT !.expirationDate = newExpiry]
        ELSE IF k = i + 1 THEN renovationTx
        ELSE h[k - 1]]

Renovate(numericUserId, purchaseId, numericMonths, numericFinalPrice) ==
    LET userHistory == history[numericUserId]
        targetIndex == FindIndex({i \in WithId(userHistory, purchaseId) :
                                      userHistory[i].type = "debit"})
        targetTx == userHistory[targetIndex]
        productName == targetTx.productName
        originalProviderId == IF productName \in ProductIds
                              THEN products[productName].creator_user_id ELSE 0
        newExpiry == <<AddMonths(StartRenewalDate(targetTx, today), numericMonths)>>
        renovationTxId == NewId(numericUserId, userHistory)
        renovationTx ==
            [targetTx EXCEPT !.id = renovationTxId, !.description = "Renovación",
                             !.amount = numericFinalPrice, !.type = "debit",
                             !.status = "Completada", !.expirationDate = newExpiry,
                             !.isRenovation = TRUE,
                             !.isCommission = FALSE, !.isRefund = FALSE,
                             !.sourceUser = 0, !.buyerUserId = 0,
                             !.buyerTransactionId = <<>>,
                             !.isWithdrawal = FALSE, !.isWithdrawalRefund = FALSE,
                             !.isRenewal = FALSE]
        \* the buyer's row is written first, the provider's row is read after it
        buyerBalance == [balance EXCEPT ![numericUserId] = @ - numericFinalPrice]
        buyerHistory == [history EXCEPT ![numericUserId] =
                            InsertRenovation(userHistory, purchaseId, newExpiry,
                                             renovationTx)]
        provTx ==
            [Entry(NewId(originalProviderId, buyerHistory[originalProviderId]),
                   "RENOVACIÓN", numericFinalPrice, "credit", "Completada")
             EXCEPT !.isCommission = TRUE, !.isRenewal = TRUE,
                    !.sourceUser = numericUserId, !.buyerUserId = numericUserId,
                    !.buyerTransactionId = renovationTxId]
    IN
    /\ IF numericMonths < 1
       THEN /\ UNCHANGED <<balance, history>>   \* 400 "Datos inválidos"
       ELSE IF balance[numericUserId] < numericFinalPrice
       THEN /\ UNCHANGED <<balance, history>>   \* 400 "Saldo insuficiente"
       ELSE IF targetIndex = 0
       THEN /\ UNCHANGED <<balance, history>>   \* 404 "Transacción original no encontrada"
       ELSE IF ~targetTx.hasDetails
       THEN \* targetTx.details is undefined: the handler throws and answers 500
            /\ UNCHANGED <<balance, history>>
       ELSE /\ Len(userHistory)
                 + (IF originalProviderId = numericUserId THEN 2 ELSE 1) <= MaxLedger
            /\ originalProviderId # 0 => Len(history[originalProviderId]) < MaxLedger
            /\ balance' = IF originalProviderId = 0 THEN buyerBalance
                          ELSE [buyerBalance EXCEPT ![originalProviderId] =
                                   @ + numericFinalPrice]
            \* 200 "Renovación exitosa"
            /\ history' = IF originalProviderId = 0 THEN buyerHistory
                          ELSE [buyerHistory EXCEPT ![originalProviderId] =
                                   <<provTx>> \o @]
    /\ UNCHANGED <<username, inFlight, users, premiumExpiresAt, role, referredBy, products, stock, orders,
                   today, withdrawVars>>

\* The ids a request may name: those of the entries of a ledger.
LedgerIds(u) == {history[u][i].id : i \in 1..Len(history[u])}
\* The ids of a user's purchases, the entries the client offers a support
\* request for.
PurchaseIds(u) ==
    {history[u][i].id : i \in {j \in 1..Len(history[u]) :
                                  history[u][j].description = "Compra"}}

\* ------------------------------------------------------------ specifications

\* The shop: purchases against the pool, and the two refunds that put
\* stock back (the support refund and the provider's per-row refund).
Next ==
    \/ \E u \in Buyers, p \in ProductIds, q \in 1..MaxQty,
          a \in PurchaseAmounts, d \in {"Autoentrega", "A pedido"} :
            Purchase(u, p, q, a, d)
    \/ \E u \in Buyers : \E t \in PurchaseIds(u) : SendToSupport(u, t)
    \/ \E u \in Buyers : \E t \in PurchaseIds(u) : HandleSupport(t, "refund")
    \/ \E id \in 1..Len(stock), a \in RefundAmounts : SupplierRefund(id, a)

Spec == Init /\ [][Next]_vars

\* The support desk: the life of a purchase entry after the sale.
NextSupport ==
    \/ \E a \in PurchaseAmounts : Purchase(2, 1, 1, a, "Autoentrega")
    \/ \E t \in PurchaseIds(2) : SendToSupport(2, t)
    \/ \E t \in PurchaseIds(2), action \in {"complete", "refund"} : HandleSupport(t, action)
    \/ \E t \in PurchaseIds(2), a \in RefundAmounts, pr \in Providers :
          RefundProportional(2, t, a, pr)
    \/ \E t \in PurchaseIds(2), hasNew \in BOOLEAN : SupportFix(t, hasNew, <<0>>)
    \/ \E t \in PurchaseIds(2) : SupportApprove(2, t)
    \/ AdvanceDay

SpecSupport == Init /\ [][NextSupport]_vars

\* The recharge desk: recharges, their approval and commission, the support
\* workflow on recharge entries, and the administrator's user updates.
NextRecharge ==
    \/ \E u \in Rechargers, a \in RechargeAmounts : TransactionRecord(u, a)
    \/ \E u \in Rechargers : \E t \in LedgerIds(u) : TransactionApprove(u, t)
    \/ \E u \in Rechargers : \E t \in LedgerIds(u) : TransactionReject(u, t)
    \/ \E u \in Rechargers : \E t \in LedgerIds(u) : TransactionCancel(u, t)
    \/ \E u \in Rechargers : \E t \in LedgerIds(u) : SendToSupport(u, t)
    \/ \E u \in Rechargers : \E t \in LedgerIds(u), action \in {"complete", "refund"} :
          HandleSupport(t, action)
    \/ \E u \in RoleUpdateUsers, c \in BalanceChanges : AdminUserUpdate(u, TRUE, c, FALSE, "")
    \/ \E u \in RoleUpdateUsers, r \in NewRoles : AdminUserUpdate(u, FALSE, 0, TRUE, r)

SpecRecharge == InitRecharge /\ [][NextRecharge]_vars

\* The refund desk: purchases of 30.00 by a customer (user 2) and by the
\* provider (user 1), sent to support and refunded on a later day.
RefundedAmounts == {3000}

InitRefund ==
    /\ balance = [u \in UserIds |-> IF u \in Buyers THEN 3000 ELSE 0]
    /\ role = [u \in UserIds |-> IF u = 1 THEN "proveedor" ELSE "Usuario"]
    /\ referredBy = [u \in UserIds |-> 0]
    /\ history = [u \in UserIds |-> <<>>]
    /\ stock \in InitPools
    /\ products = [p \in ProductIds |->
                     [stock |-> PoolSum(stock, p), creator_user_id |-> 1,
                      delivery |-> "Autoentrega",
                      duration |-> [digits |-> <<3, 0>>, unit |-> "Días"]]]
    /\ orders = <<>>
    /\ today = 0
    /\ NoWithdrawals
    /\ NoPremium
    /\ AllRegistered

NextRefund ==
    \/ \E u \in Buyers, a \in RefundedAmounts : Purchase(u, 1, 1, a, "Autoentrega")
    \/ \E u \in Buyers : \E t \in PurchaseIds(u) : SendToSupport(u, t)
    \/ \E u \in Buyers : \E t \in PurchaseIds(u) : HandleSupport(t, "refund")
    \/ \E u \in Buyers : \E t \in PurchaseIds(u) : \E a \in RefundAmounts, pr \in Buyers :
          RefundProportional(u, t, a, pr)
    \/ AdvanceDay

SpecRefund == InitRefund /\ [][NextRefund]_vars

\* The refund desk with the amounts a provider may type in: half of a
\* purchase of 10.00, and twice that purchase.
ClaimedRefunds == {500, 2000}

NextRefundCap ==
    \/ \E a \in PurchaseAmounts : Purchase(2, 1, 1, a, "Autoentrega")
    \/ \E t \in PurchaseIds(2) : SendToSupport(2, t)
    \/ \E t \in PurchaseIds(2) : HandleSupport(t, "refund")
    \/ \E t \in PurchaseIds(2) : \E a \in ClaimedRefunds, pr \in Providers :
          RefundProportional(2, t, a, pr)
    \/ AdvanceDay

SpecRefundCap == InitRefund /\ [][NextRefundCap]_vars

\* The balances the withdrawal desk starts from.
OpeningBalance ==
    [u \in UserIds |-> IF u = 1 THEN 30000 ELSE IF u = 2 THEN 10000 ELSE 0]

\* The withdrawal desk: two users with money and empty ledgers, requests that
\* run one at a time, the provider's cancel, the admin's decision and fee.
InitWithdraw ==
    /\ balance = OpeningBalance
    /\ role = [u \in UserIds |-> IF u = 1 THEN "proveedor" ELSE "Usuario"]
    /\ referredBy = [u \in UserIds |-> 0]
    /\ history = [u \in UserIds |-> <<>>]
    /\ stock = <<>>
    /\ products = [p \in ProductIds |->
                     [stock |-> 0, creator_user_id |-> 1,
                      delivery |-> "Autoentrega",
                      duration |-> [digits |-> <<3, 0>>, unit |-> "Días"]]]
    /\ orders = <<>>
    /\ today = 0
    /\ NoWithdrawals
    /\ NoPremium
    /\ AllRegistered

NextWithdraw ==
    \/ \E u \in Withdrawers, a \in WithdrawAmounts : Withdraw(u, a)
    \/ \E id \in WithdrawalIds, u \in Withdrawers : WithdrawCancel(id, u)
    \/ \E id \in WithdrawalIds, action \in WithdrawActions : WithdrawManage(id, action)
    \/ \E fee \in FeeInputs : SetWithdrawalFee(fee)

SpecWithdraw == InitWithdraw /\ [][NextWithdraw]_vars

\* The withdrawal desk with requests that overlap: a request's reads and its
\* writes are two steps, and other requests run between them.
NextOverlap ==
    \/ \E u \in Withdrawers, a \in WithdrawAmounts : WithdrawRead(u, a)
    \/ \E k \in 1..MaxOverlap : WithdrawWrite(k)
    \/ \E id \in WithdrawalIds, u \in Withdrawers : WithdrawCancel(id, u)
    \/ \E id \in WithdrawalIds, action \in WithdrawActions : WithdrawManage(id, action)

SpecOverlap == InitWithdraw /\ [][NextOverlap]_vars

\* The membership desk: a provider (user 1) and a customer (user 2) with
\* money for two upgrades each, role-resolving reads, an admin who changes
\* the customer's role, and the calendar.
InitPremium ==
    /\ balance = [u \in UserIds |-> IF u \in PremiumUsers THEN 2000 ELSE 0]
    /\ role = [u \in UserIds |-> IF u = 1 THEN "proveedor" ELSE "Usuario"]
    /\ referredBy = [u \in UserIds |-> 0]
    /\ history = [u \in UserIds |-> <<>>]
    /\ stock = <<>>
    /\ products = [p \in ProductIds |->
                     [stock |-> 0, creator_user_id |-> 1,
                      delivery |-> "Autoentrega",
                      duration |-> [digits |-> <<3, 0>>, unit |-> "Días"]]]
    /\ orders = <<>>
    /\ today = 0
    /\ NoWithdrawals
    /\ NoPremium
    /\ AllRegistered

NextPremium ==
    \/ \E u \in PremiumUsers, a \in PremiumPrices, m \in PremiumMonths :
          UpgradeToPremium(u, a, m)
    \/ \E u \in PremiumUsers : GetProfile(u)
    \/ \E u \in PremiumUsers : Login(u)
    \/ \E r \in {"Admin", "proveedor"} : AdminUserUpdate(2, FALSE, 0, TRUE, r)
    \/ AdvanceDay

SpecPremium == InitPremium /\ [][NextPremium]_vars

\* The checkout: a customer (user 2) with 25.00 who buys, renews, buys a
\* membership and applies for the distributor rank until the money runs out.
CheckoutPrices == {1000}
CheckoutMonths == {1}

InitCheckout ==
    /\ balance = [u \in UserIds |-> IF u = 2 THEN 2500 ELSE 0]
    /\ role = [u \in UserIds |-> IF u = 1 THEN "proveedor" ELSE "Usuario"]
    /\ referredBy = [u \in UserIds |-> 0]
    /\ history = [u \in UserIds |-> <<>>]
    /\ stock \in InitPools
    /\ products = [p \in ProductIds |->
                     [stock |-> PoolSum(stock, p), creator_user_id |-> 1,
                      delivery |-> "Autoentrega",
                      duration |-> [digits |-> <<3, 0>>, unit |-> "Días"]]]
    /\ orders = <<>>
    /\ today = 0
    /\ NoWithdrawals
    /\ NoPremium
    /\ AllRegistered

NextCheckout ==
    \/ \E a \in CheckoutPrices : Purchase(2, 1, 1, a, "Autoentrega")
    \/ \E t \in LedgerIds(2), m \in CheckoutMonths, a \in CheckoutPrices :
          Renovate(2, t, m, a)
    \/ \E a \in CheckoutPrices, m \in CheckoutMonths : UpgradeToPremium(2, a, m)
    \/ \E code \in ReferralCodes : ApplySupplier(2, code)
    \/ AdvanceDay

SpecCheckout == InitCheckout /\ [][NextCheckout]_vars

\* ------------------------------------------------- supplier stock handlers

\* The product_stock table is the sequence `stock`, a row's id its index.
\* A row removed by DELETE leaves its index behind (ids are not reused) and
\* belongs to no product.
DeletedRow ==
    [product_id |-> 0, provider_user_id |-> 0, quantity |-> 0,
     status |-> "", is_sold |-> FALSE, sold_to_user_id |-> 0]

\* SELECT ... FROM product_stock WHERE id = ? returns a row.
RowExists(rows, stockId) ==
    stockId \in 1..Len(rows) /\ rows[stockId].product_id # 0

\* The JSON objects a client sends as one stock item: its quantity (0 when
\* the field is missing) and its status.  The data of a PUT carries a
\* quantity of 2 and either status.
ItemQuantities == {0, 2}
CredentialItems == {[quantity |-> q, status |-> "Publicado"] : q \in ItemQuantities}
StockData ==
    {[quantity |-> 2, status |-> s] : s \in {"Publicado", "Sin publicar"}}
CredentialLists == {<<>>} \cup {<<i>> : i \in CredentialItems}
StockCounters == {0, 1}

\* The rows the supplier's handlers let the table grow to.
MaxShelf == 2

\* INSERT INTO product_stock (product_id, provider_user_id, data, is_sold)
\* VALUES (?, ?, ?, 0), once per item, the item stored as sent.
InsertItems(rows, productId, providerId, items) ==
    rows \o [k \in 1..Len(items) |->
               [product_id |-> productId, provider_user_id |-> providerId,
                quantity |-> items[k].quantity, status |-> items[k].status,
                is_sold |-> FALSE, sold_to_user_id |-> 0]]

\* A variant of updateProductStock that leaves the counter as it is.
UpdateProductStock_Keep(prods, rows, productId) == prods

\* updateProductStock(productId): the counter is set to the sum over the
\* table as it now is; an UPDATE of a missing product changes nothing.
UpdateProductStock(prods, rows, productId) ==
    IF productId \in DOMAIN prods
    THEN [prods EXCEPT ![productId].stock = PoolSum(rows, productId)]
    ELSE prods

\* POST /products: the product row takes the counter the request carries,
\* then one stock row per credential.
CreateProduct(creatorUserId, delivery, stockField, credentials) ==
    LET newProductId == Cardinality(DOMAIN products) + 1 IN
    /\ newProductId \in ProductIds
    /\ Len(stock) + Len(credentials) <= MaxShelf
    /\ products' = products @@
          (newProductId :>
             [stock |-> stockField, creator_user_id |-> creatorUserId,
              delivery |-> delivery,
              duration |-> [digits |-> <<3, 0>>, unit |-> "Días"]])
    /\ stock' = InsertItems(stock, newProductId, creatorUserId, credentials)
    /\ UNCHANGED <<username, inFlight, users, premiumExpiresAt, balance, role, referredBy, history,
                   orders, today, withdrawVars>>   \* 201

\* POST /product/update: the product's fields are rewritten; credentials,
\* when sent, are inserted and the counter read before is raised by their
\* number.
ProductUpdate(id, delivery, credentials) ==
    LET updated == IF id \in DOMAIN products
                   THEN [products EXCEPT ![id].delivery = delivery]
                   ELSE products
        creatorId == IF id \in DOMAIN products
                     THEN products[id].creator_user_id ELSE 0
    IN
    /\ Len(stock) + Len(credentials) <= MaxShelf
    /\ IF Len(credentials) > 0 /\ creatorId # 0
       THEN /\ stock' = InsertItems(stock, id, creatorId, credentials)
            /\ products' = [updated EXCEPT
                              ![id].stock = updated[id].stock + Len(credentials)]
       ELSE /\ products' = updated
            /\ UNCHANGED stock
    /\ UNCHANGED <<username, inFlight, users, premiumExpiresAt, balance, role, referredBy, history,
                   orders, today, withdrawVars>>   \* 200

\* POST /supplier/stock/add: every item is stored with its quantity parsed
\* and the status 'Sin publicar', then the counter is recomputed.
StockAdd(productId, providerId, items) ==
    IF Len(items) = 0
    THEN UNCHANGED vars   \* 400 'Datos inválidos.'
    ELSE /\ Len(stock) + Len(items) <= MaxShelf
         /\ stock' = InsertItems(stock, productId, providerId,
                        [k \in 1..Len(items) |->
                           [quantity |-> ParseQuantity(items[k].quantity),
                            status |-> "Sin publicar"]])
         /\ products' = UpdateProductStock(products, stock', productId)
         /\ UNCHANGED <<username, inFlight, users, premiumExpiresAt, balance, role, referredBy, history,
                        orders, today, withdrawVars>>   \* 200

\* PUT /supplier/stock/:stockId: the row's data is replaced by the object
\* sent; an id that matches no row changes nothing.
StockEdit(stockId, data) ==
    /\ stock' = IF RowExists(stock, stockId)
                THEN [stock EXCEPT ![stockId].quantity = data.quantity,
                                   ![stockId].status = data.status]
                ELSE stock
    /\ UNCHANGED <<username, inFlight, users, premiumExpiresAt, balance, role, referredBy, history,
                   products, orders, today, withdrawVars>>   \* 200

\* POST /supplier/stock/publish
StockPublish(stockId) ==
    IF ~RowExists(stock, stockId)
    THEN UNCHANGED vars   \* 404 'Ítem no encontrado.'
    ELSE /\ stock' = [stock EXCEPT ![stockId].status = "Publicado"]
         /\ products' = UpdateProductStock(products, stock',
                                           stock[stockId].product_id)
         /\ UNCHANGED <<username, inFlight, users, premiumExpiresAt, balance, role, referredBy, history,
                        orders, today, withdrawVars>>   \* 200

\* DELETE /supplier/stock/:stockId
StockDelete(stockId) ==
    IF ~RowExists(stock, stockId)
    THEN UNCHANGED vars   \* 404 'Ítem no encontrado.'
    ELSE /\ stock' = [stock EXCEPT ![stockId] = DeletedRow]
         /\ products' = UpdateProductStock(products, stock',
                                           stock[stockId].product_id)
         /\ UNCHANGED <<username, inFlight, users, premiumExpiresAt, balance, role, referredBy, history,
                        orders, today, withdrawVars>>   \* 200

\* The stock room: a supplier (user 1) creates a product and manages its
\* stock while a buyer (user 2) purchases from it.
InitStock ==
    /\ balance = [u \in UserIds |-> IF u = 2 THEN 1000 ELSE 0]
    /\ role = [u \in UserIds |-> IF u = 1 THEN "proveedor" ELSE "Usuario"]
    /\ referredBy = [u \in UserIds |-> 0]
    /\ history = [u \in UserIds |-> <<>>]
    /\ stock = <<>>
    /\ products = <<>>
    /\ orders = <<>>
    /\ today = 0
    /\ NoWithdrawals
    /\ NoPremium
    /\ AllRegistered

NextStock ==
    \/ \E c \in Providers, n \in StockCounters, items \in CredentialLists :
          CreateProduct(c, "Autoentrega", n, items)
    \/ \E p \in DOMAIN products, items \in CredentialLists :
          ProductUpdate(p, "Autoentrega", items)
    \/ \E p \in DOMAIN products, c \in Providers, items \in CredentialLists :
          StockAdd(p, c, items)
    \/ \E id \in 1..Len(stock), data \in StockData : StockEdit(id, data)
    \/ \E id \in 1..Len(stock) : StockPublish(id)
    \/ \E id \in 1..Len(stock) : StockDelete(id)
    \/ \E p \in DOMAIN products, q \in 1..MaxQty, a \in PurchaseAmounts :
          Purchase(2, p, q, a, "Autoentrega")

SpecStock == InitStock /\ [][NextStock]_vars

\* ---------------------------------------------------- POST /admin/user/delete

\* The rows of product_stock left by DELETE ... WHERE provider_user_id = ?.
DeleteStockOf(rows, numericUserId) ==
    [i \in 1..Len(rows) |->
        IF rows[i].provider_user_id = numericUserId THEN DeletedRow ELSE rows[i]]

\* The rows of products left by DELETE ... WHERE creator_user_id = ?.
DeleteProductsOf(prods, numericUserId) ==
    [p \in {q \in DOMAIN prods : prods[q].creator_user_id # numericUserId}
       |-> prods[p]]

\* A variant of the Admin guard that refuses nothing.
IsProtected_Never(userRole) == FALSE

\* userResult.rows[0].role === 'Admin'
IsProtected(userRole) == userRole = "Admin"

\* The user's stock, orders, products and withdrawals are deleted, then the
\* user's row; the columns of a row that is gone read as their defaults.
AdminUserDelete(numericUserId) ==
    IF numericUserId \notin users
    THEN UNCHANGED vars   \* 404 'Usuario no encontrado.'
    ELSE IF IsProtected(role[numericUserId])
    THEN UNCHANGED vars   \* 403 'No puedes eliminar la cuenta de Administrador.'
    ELSE /\ stock' = DeleteStockOf(stock, numericUserId)
         /\ orders' = SelectSeq(orders,
                         LAMBDA o : /\ o.buyer_user_id # numericUserId
                                    /\ o.provider_user_id # numericUserId)
         /\ products' = DeleteProductsOf(products, numericUserId)
         /\ withdrawals' = {w \in withdrawals : w.user_id # numericUserId}
         /\ users' = users \ {numericUserId}
         /\ balance' = [balance EXCEPT ![numericUserId] = 0]
         /\ role' = [role EXCEPT ![numericUserId] = "Usuario"]
         /\ referredBy' = [referredBy EXCEPT ![numericUserId] = 0]
         /\ history' = [history EXCEPT ![numericUserId] = <<>>]
         /\ premiumExpiresAt' = [premiumExpiresAt EXCEPT ![numericUserId] = <<>>]
         /\ UNCHANGED <<username, inFlight, today, lastWithdrawalId, withdrawalFee, withdrawing>>

\* The suppliers whose id a stock/add request carries.
StockSuppliers == {1, 3}

\* The back office: a product of user 1 with its pool, a second supplier
\* (user 3), a buyer (user 2), and the administrator deleting accounts.
InitDelete ==
    /\ balance = [u \in UserIds |-> IF u = 1 THEN 10000 ELSE IF u = 2 THEN 1000 ELSE 0]
    /\ role = [u \in UserIds |-> IF u = 2 THEN "Usuario" ELSE "proveedor"]
    /\ referredBy = [u \in UserIds |-> 0]
    /\ history = [u \in UserIds |-> <<>>]
    /\ stock \in {<<StockRow(q, "Publicado")>> : q \in 1..MaxQty}
    /\ products = [p \in ProductIds |->
                     [stock |-> PoolSum(stock, p), creator_user_id |-> 1,
                      delivery |-> "Autoentrega",
                      duration |-> [digits |-> <<3, 0>>, unit |-> "Días"]]]
    /\ orders = <<>>
    /\ today = 0
    /\ NoWithdrawals
    /\ NoPremium
    /\ AllRegistered

\* Requests of a user whose row is gone, or for a product that is gone, are
\* answered 404 and change nothing; stock/add looks up neither.
NextDelete ==
    \/ \E u \in UserIds : AdminUserDelete(u)
    \/ \E p \in ProductIds, c \in StockSuppliers, items \in CredentialLists :
          StockAdd(p, c, items)
    \/ \E u \in Buyers \cap users, p \in DOMAIN products, a \in PurchaseAmounts,
          d \in {"Autoentrega", "A pedido"} : Purchase(u, p, 1, a, d)
    \/ \E u \in Withdrawers \cap users, a \in WithdrawAmounts : Withdraw(u, a)

SpecDelete == InitDelete /\ [][NextDelete]_vars

\* --------------------------------------------- POST /admin/user/approve
\* UPDATE users SET is_approved = 1, role = 'distribuidor' WHERE id = ?
AdminUserApprove(numericUserId) ==
    /\ role' = IF numericUserId \in users
               THEN [role EXCEPT ![numericUserId] = "distribuidor"]
               ELSE role   \* 200 'Usuario aprobado correctamente.'
    /\ UNCHANGED <<username, inFlight, users, premiumExpiresAt, balance,
                   referredBy, history, products, stock, orders, today, withdrawVars>>

\* ---------------------------------------------- POST /admin/user/reject
\* UPDATE users SET role = 'Usuario', is_approved = 1 WHERE id = ?
AdminUserReject(numericUserId) ==
    /\ role' = IF numericUserId \in users
               THEN [role EXCEPT ![numericUserId] = "Usuario"]
               ELSE role   \* 200 'Solicitud rechazada.'
    /\ UNCHANGED <<username, inFlight, users, premiumExpiresAt, balance,
                   referredBy, history, products, stock, orders, today, withdrawVars>>

\* ------------------------------ POST /user/cancel-supplier-application
\* UPDATE users SET role = 'Usuario', is_approved = 1 WHERE id = ?
CancelSupplierApplication(numericUserId) ==
    /\ role' = IF numericUserId \in users
               THEN [role EXCEPT ![numericUserId] = "Usuario"]
               ELSE role   \* 200 'Solicitud cancelada correctamente.'
    /\ UNCHANGED <<username, inFlight, users, premiumExpiresAt, balance,
                   referredBy, history, products, stock, orders, today, withdrawVars>>

\* The accounts desk: the administrator (user 3) and a customer (user 2),
\* either of whom the requests may name.
AdminAccount == 3
AccountHolders == {2, AdminAccount}

InitAccounts ==
    /\ balance = [u \in UserIds |-> IF u \in AccountHolders THEN 2000 ELSE 0]
    /\ role = [u \in UserIds |-> IF u = AdminAccount THEN "Admin"
                                 ELSE IF u = 1 THEN "proveedor" ELSE "Usuario"]
    /\ referredBy = [u \in UserIds |-> 0]
    /\ history = [u \in UserIds |-> <<>>]
    /\ stock = <<>>
    /\ products = [p \in ProductIds |->
                     [stock |-> 0, creator_user_id |-> 1,
                      delivery |-> "Autoentrega",
                      duration |-> [digits |-> <<3, 0>>, unit |-> "Días"]]]
    /\ orders = <<>>
    /\ today = 0
    /\ NoWithdrawals
    /\ NoPremium
    /\ AllRegistered

NextAccounts ==
    \/ \E u \in AccountHolders : AdminUserDelete(u)
    \/ \E u \in AccountHolders : AdminUserApprove(u)
    \/ \E u \in AccountHolders : AdminUserReject(u)
    \/ \E u \in AccountHolders : CancelSupplierApplication(u)
    \/ \E u \in AccountHolders \cap users : ApplySupplier(u, "BLD231")
    \/ \E u \in AccountHolders \cap users, a \in PremiumPrices :
          UpgradeToPremium(u, a, 1)
    \/ \E u \in AccountHolders \cap users : GetProfile(u)
    \/ AdvanceDay

SpecAccounts == InitAccounts /\ [][NextAccounts]_vars

\* ------------------------------------------------ catalogue and carousel

\* The carousel's limit.
MaxTrending == 4

\* The products of the catalogue: one more than the carousel takes.
CatalogIds == 1..(MaxTrending + 1)

\* The k rows of lowest id among the rows `ids` (LIMIT k).
Limit(ids, k) == {p \in ids : Cardinality({q \in ids : q < p}) < k}

\* GET /products: is_published = 1 AND publication_end_date >
\* CURRENT_TIMESTAMP AND stock > 0 (a NULL date passes no comparison).
PublicProducts ==
    {p \in DOMAIN products :
        /\ products[p].is_published
        /\ Len(products[p].publication_end_date) > 0
        /\ products[p].publication_end_date[1] > today
        /\ products[p].stock > 0}

\* GET /products/trending-carousel: is_trending = 1 LIMIT 4.
TrendingCarousel ==
    Limit({p \in DOMAIN products : products[p].is_trending}, 4)

\* startDate of the publication payment
PublicationStart(endDate, now) ==
    IF Len(endDate) > 0 /\ endDate[1] > now THEN endDate[1] ELSE now

\* POST /user/deduct-balance-and-record-publication: the balance and the
\* entry the request carries are stored, and the product, if the user
\* created it, is published until the new end date.
PublishProduct(numericUserId, numericNewBalance, amount, numericProductId, numericMonths) ==
    LET transaction == Entry(NewId(numericUserId, history[numericUserId]),
                             "Publicación", amount, "debit", "Completada")
    IN
    IF numericUserId \notin users \/ numericProductId \notin DOMAIN products
    THEN UNCHANGED vars   \* 404 'Usuario o Producto no encontrado.'
    ELSE LET newEndDate ==
                AddMonths(PublicationStart(
                             products[numericProductId].publication_end_date,
                             today), numericMonths)
         IN
         /\ Len(history[numericUserId]) < MaxLedger
         /\ balance' = [balance EXCEPT ![numericUserId] = numericNewBalance]
         /\ history' = [history EXCEPT ![numericUserId] = <<transaction>> \o @]
         /\ products' =
               IF products[numericProductId].creator_user_id = numericUserId
               THEN [products EXCEPT
                        ![numericProductId].is_published = TRUE,
                        ![numericProductId].publication_end_date = <<newEndDate>>]
               ELSE products
         /\ UNCHANGED <<username, inFlight, users, premiumExpiresAt, role, referredBy, stock,
                        orders, today, withdrawVars>>   \* 200

\* A variant of the limit test that lets every request through.
CarouselFull_Never(prods, productId) == FALSE

\* SELECT COUNT(*) ... WHERE is_trending = 1 AND id != ? is 4 or more.
CarouselFull(prods, productId) ==
    Cardinality({p \in DOMAIN prods : prods[p].is_trending /\ p # productId}) >= 4

\* POST /admin/product/update-tags (of the tags, isTrending)
UpdateTags(productId, isTrending) ==
    IF isTrending /\ CarouselFull(products, productId)
    THEN UNCHANGED vars   \* 400 'Límite alcanzado: Máximo 4 productos en el Carrusel.'
    ELSE /\ products' = IF productId \in DOMAIN products
                        THEN [products EXCEPT ![productId].is_trending = isTrending]
                        ELSE products
         /\ UNCHANGED <<username, inFlight, users, premiumExpiresAt, balance, role, referredBy,
                        history, stock, orders, today, withdrawVars>>   \* 200

\* POST /admin/products/set-carousel, productIds an array of distinct ids.
SetCarousel(productIds) ==
    IF Cardinality(productIds) > 4
    THEN UNCHANGED vars   \* 400 'Máximo 4 productos permitidos en el carrusel.'
    ELSE /\ products' = [p \in DOMAIN products |->
                           [products[p] EXCEPT !.is_trending = p \in productIds]]
         /\ UNCHANGED <<username, inFlight, users, premiumExpiresAt, balance, role, referredBy,
                        history, stock, orders, today, withdrawVars>>   \* 200

\* The price of a publication month and the balances a payment leaves.
PublicationPrices == {500}

\* The catalogue: five products in stock, none published, those of lowest id
\* created by user 1, and at most four of them on the carousel.
InitCatalog ==
    /\ balance = [u \in UserIds |-> IF u = 1 THEN 1000 ELSE 0]
    /\ role = [u \in UserIds |-> IF u = 2 THEN "Usuario" ELSE "proveedor"]
    /\ referredBy = [u \in UserIds |-> 0]
    /\ history = [u \in UserIds |-> <<>>]
    /\ stock = <<>>
    /\ \E trending \in {{}, 1..MaxTrending} :
          products = [p \in CatalogIds |->
                        [stock |-> 1, creator_user_id |-> IF p <= 2 THEN 1 ELSE 3,
                         delivery |-> "A pedido",
                         duration |-> [digits |-> <<3, 0>>, unit |-> "Días"],
                         is_published |-> FALSE, publication_end_date |-> <<>>,
                         is_trending |-> p \in trending]]
    /\ orders = <<>>
    /\ today = 0
    /\ NoWithdrawals
    /\ NoPremium
    /\ AllRegistered

NextCatalog ==
    \/ \E p \in {1, 3}, a \in PublicationPrices :
          PublishProduct(1, balance[1] - a, a, p, 1)
    \/ \E p \in CatalogIds, t \in BOOLEAN : UpdateTags(p, t)
    \/ \E ids \in SUBSET CatalogIds : SetCarousel(ids)
    \/ AdvanceDay

SpecCatalog == InitCatalog /\ [][NextCatalog]_vars

\* ------------------------------------------------------ overlapping requests

\* A handler runs its reads, waits, and runs its writes; between the two
\* steps other requests may run theirs.  inFlight holds the requests that
\* wait, each with the rows it read.

\* The ids of the entries of the ledger h.
IdsOf(h) == {h[i].id : i \in 1..Len(h)}

\* The transaction ids of the requests that wait and of the entries in the
\* ledgers they read.
InFlightIds ==
    {inFlight[k].transactionId : k \in 1..Len(inFlight)}
    \cup UNION {IdsOf(inFlight[k].currentHistory) : k \in 1..Len(inFlight)}

\* An id no stored entry of the user and no waiting request carries (the
\* handler's random '#ORD-...' id, the client's id of a recharge).
FreshId(userId) ==
    <<userId,
      CHOOSE n \in 1..(MaxLedger * (MaxOverlap + 1) + MaxOverlap + 1) :
         /\ <<userId, n>> \notin LedgerIds(userId) \cup InFlightIds
         /\ \A m \in 1..(n - 1) :
               <<userId, m>> \in LedgerIds(userId) \cup InFlightIds>>

\* The sequence without its k-th element.
Without(seq, k) == SubSeq(seq, 1, k - 1) \o SubSeq(seq, k + 1, Len(seq))

\* POST /transaction/record up to its SELECT of transactions_history.
RecordRead(userId, amount) ==
    /\ Len(inFlight) < MaxOverlap
    /\ Len(history[userId]) < MaxLedger
    /\ Cardinality({i \in 1..Len(history[userId]) :
                        history[userId][i].description = "Recarga"})
          + Cardinality({k \in 1..Len(inFlight) : inFlight[k].kind = "record"})
          < MaxRecharges
    /\ inFlight' = Append(inFlight,
          [kind |-> "record", userId |-> userId, numericAmount |-> amount,
           transactionId |-> FreshId(userId),
           currentHistory |-> history[userId]])
    /\ UNCHANGED <<username, users, premiumExpiresAt, balance, role, referredBy, history,
                   products, stock, orders, today, withdrawVars>>

\* A variant of the stored ledger built on the ledger as it now is.
UpdatedHistory_Reread(stored, read, transaction) == <<transaction>> \o stored

\* updatedHistory = [transaction, ...currentHistory], currentHistory being
\* the ledger the request read.
UpdatedHistory(stored, read, transaction) == <<transaction>> \o read

\* POST /transaction/record from its UPDATE on.
RecordWrite(k) ==
    LET r == inFlight[k]
        transaction == Entry(r.transactionId, "Recarga", r.numericAmount,
                             "credit", "Pendiente")
    IN
    /\ r.kind = "record"
    /\ history' = [history EXCEPT ![r.userId] =
                      UpdatedHistory(@, r.currentHistory, transaction)]
    /\ inFlight' = Without(inFlight, k)   \* 200
    /\ UNCHANGED <<username, users, premiumExpiresAt, balance, role, referredBy,
                   products, stock, orders, today, withdrawVars>>

\* POST /user/purchase up to its SELECT of the unsold pool: the buyer's row,
\* the product and the pool are read.
PurchaseRead(numericUserId, productId, numericQty, numericAmount, delivery) ==
    /\ Len(inFlight) < MaxOverlap
    /\ Len(history[numericUserId]) < MaxLedger
    /\ inFlight' =
          IF balance[numericUserId] < numericAmount
          THEN inFlight   \* 400 'Saldo insuficiente.'
          ELSE Append(inFlight,
                 [kind |-> "purchase", userId |-> numericUserId,
                  productId |-> productId, numericQty |-> numericQty,
                  numericAmount |-> numericAmount, delivery |-> delivery,
                  transactionId |-> FreshId(numericUserId),
                  balance |-> balance[numericUserId],
                  currentHistory |-> history[numericUserId],
                  product |-> products[productId],
                  allStock |-> stock])
    /\ UNCHANGED <<username, users, premiumExpiresAt, balance, role, referredBy, history,
                   products, stock, orders, today, withdrawVars>>

\* The table after the statements of an allocation made on the rows `read`
\* (which left them as `written`) are run on the rows `stored`: an UPDATE
\* sets the data of its row, and is_sold with the buyer where the record is
\* sold whole; the INSERTs add their rows at the end.
RunAllocation(stored, read, written) ==
    [i \in 1..Len(stored) |->
        IF i <= Len(read) /\ written[i] # read[i]
        THEN [stored[i] EXCEPT
                 !.quantity = written[i].quantity,
                 !.status = written[i].status,
                 !.is_sold = IF written[i].is_sold THEN TRUE ELSE @,
                 !.sold_to_user_id = IF written[i].is_sold
                                     THEN written[i].sold_to_user_id ELSE @]
        ELSE stored[i]]
    \o SubSeq(written, Len(read) + 1, Len(written))

\* The stock ids of a credentials list, the inserted copies at the ids the
\* table gave them.
StoredIds(credentialsList, read, stored) ==
    [k \in 1..Len(credentialsList) |->
        IF credentialsList[k] > Len(read)
        THEN credentialsList[k] - Len(read) + Len(stored)
        ELSE credentialsList[k]]

\* A variant of the allocation that runs on the rows as they now are.
AllocatedRows_Reread(stored, read) == stored

\* The rows the allocation loop runs over: allStock.rows, the pool the
\* request read.
AllocatedRows(stored, read) == read

\* POST /user/purchase from its allocation on: the pool read is allocated,
\* the counter lowered, the buyer's row written from the row read, the
\* provider's row read and written, the order inserted.
PurchaseWrite(k) ==
    LET r == inFlight[k]
        numericUserId == r.userId
        providerId == r.product.creator_user_id
        isOrderRequest == r.delivery = "A pedido" \/ r.product.delivery = "A pedido"
        alloc == Allocate(AllocatedRows(stock, r.allStock), r.numericQty,
                          numericUserId, r.productId, providerId)
        newBuyerTransaction ==
            [Entry(r.transactionId, "Compra", r.numericAmount, "debit", "Completada")
             EXCEPT !.hasDetails = TRUE, !.productName = r.productId,
                    !.fullCredentials =
                        StoredIds(alloc.credentialsList, AllocatedRows(stock, r.allStock), stock),
                    !.delivery = IF isOrderRequest THEN "A pedido" ELSE "Autoentrega",
                    !.purchaseDate = today, !.duration = r.product.duration,
                    !.expirationDate =
                        <<today + (IF Len(r.product.duration.digits) > 0
                                   THEN ParseInt(r.product.duration.digits, 10)
                                   ELSE 30)>>,
                    !.quantity = r.numericQty]
        buyerBalance == [balance EXCEPT ![numericUserId] =
                            BuyerNewBalance(r.balance, r.numericAmount)]
        buyerHistory == [history EXCEPT ![numericUserId] =
                            UpdatedHistory(@, r.currentHistory, newBuyerTransaction)]
        newProviderTransaction ==
            [Entry(NewId(providerId, buyerHistory[providerId]), "Venta",
                   r.numericAmount, "credit", "Completada")
             EXCEPT !.isCommission = TRUE, !.sourceUser = numericUserId,
                    !.buyerUserId = numericUserId,
                    !.buyerTransactionId = r.transactionId]
    IN
    /\ r.kind = "purchase"
    /\ inFlight' = Without(inFlight, k)
    /\ Len(stock) + Len(alloc.stock) - Len(AllocatedRows(stock, r.allStock))
          <= MaxStock
    /\ stock' = RunAllocation(stock, AllocatedRows(stock, r.allStock), alloc.stock)
    /\ IF alloc.collectedCount < r.numericQty
       THEN UNCHANGED <<balance, history, products, orders>>   \* 409 'Stock insuficiente.'
       ELSE /\ Len(history[providerId]) < MaxLedger
            /\ products' = [products EXCEPT ![r.productId].stock = @ - r.numericQty]
            /\ balance' = [buyerBalance EXCEPT ![providerId] =
                             ProviderNewBalance(@, r.numericAmount)]
            /\ history' = [buyerHistory EXCEPT
                             ![providerId] = <<newProviderTransaction>> \o @]
            /\ orders' = IF isOrderRequest
                         THEN Append(orders,
                                [purchase_id |-> r.transactionId,
                                 buyer_user_id |-> numericUserId,
                                 provider_user_id |-> providerId,
                                 product_id |-> r.productId,
                                 quantity |-> r.numericQty, status |-> "Pending"])
                         ELSE orders   \* 200 "Compra realizada"
    /\ UNCHANGED <<username, users, premiumExpiresAt, role, referredBy, today, withdrawVars>>

\* The recharges recorded while purchases run.
RaceRecharges == {5000}

\* The counter under load: a provider (user 1) with one published unit, and
\* two buyers (users 2 and 3) with money.
InitRace ==
    /\ balance = [u \in UserIds |-> IF u = 1 THEN 0 ELSE 1000]
    /\ role = [u \in UserIds |-> IF u = 1 THEN "proveedor" ELSE "Usuario"]
    /\ referredBy = [u \in UserIds |-> 0]
    /\ history = [u \in UserIds |-> <<>>]
    /\ stock \in {<<StockRow(q, "Publicado")>> : q \in 1..MaxQty}
    /\ products = [p \in ProductIds |->
                     [stock |-> PoolSum(stock, p), creator_user_id |-> 1,
                      delivery |-> "Autoentrega",
                      duration |-> [digits |-> <<3, 0>>, unit |-> "Días"]]]
    /\ orders = <<>>
    /\ today = 0
    /\ NoWithdrawals
    /\ NoPremium
    /\ AllRegistered

\* Two buyers after the same unit.
NextRace ==
    \/ \E u \in {2, 3}, a \in PurchaseAmounts :
          PurchaseRead(u, 1, 1, a, "Autoentrega")
    \/ \E k \in 1..Len(inFlight) : PurchaseWrite(k)

SpecRace == InitRace /\ [][NextRace]_vars

\* One user's ledger: the purchases and the recharge records of user 2.
NextLedgerRace ==
    \/ \E a \in PurchaseAmounts : PurchaseRead(2, 1, 1, a, "Autoentrega")
    \/ \E k \in 1..Len(inFlight) : PurchaseWrite(k)
    \/ \E a \in RaceRecharges : RecordRead(2, a)
    \/ \E k \in 1..Len(inFlight) : RecordWrite(k)

InitLedgerRace == InitRace /\ stock = <<StockRow(1, "Publicado")>>

SpecLedgerRace == InitLedgerRace /\ [][NextLedgerRace]_vars

\* POST /admin/withdraw/manage up to its check of the status read.
ManageRead(withdrawalId, action) ==
    LET wRes == {w \in withdrawals : w.id = withdrawalId}
        withdrawal == CHOOSE w \in wRes : TRUE
    IN
    /\ Len(inFlight) < MaxOverlap
    /\ inFlight' =
          IF wRes = {} THEN inFlight   \* 404 "Retiro no encontrado"
          ELSE IF AlreadyProcessed(withdrawal)
          THEN inFlight                \* 400 "Ya fue procesado"
          ELSE Append(inFlight,
                 [kind |-> "manage", withdrawalId |-> withdrawalId,
                  action |-> action, withdrawal |-> withdrawal])
    /\ UNCHANGED <<username, users, premiumExpiresAt, balance, role, referredBy, history,
                   products, stock, orders, today, withdrawVars>>

\* POST /admin/withdraw/manage from its UPDATE of the status on: the row
\* read decides the amounts, the ledger is read again before it is written.
ManageWrite(k) ==
    LET r == inFlight[k]
        withdrawal == r.withdrawal
        providerHistory == history[withdrawal.user_id]
        approvedTx ==
            [Entry(NewId(withdrawal.user_id, providerHistory),
                   "RETIRO DE FONDOS APROBADO", ApprovedDebitAmount(withdrawal),
                   "debit", "Completada")
             EXCEPT !.isWithdrawal = TRUE]
        rejectedTx ==
            [Entry(NewId(withdrawal.user_id, providerHistory),
                   "RETIRO RECHAZADO", withdrawal.amount_original,
                   "credit", "Completada")
             EXCEPT !.isWithdrawalRefund = TRUE]
    IN
    /\ r.kind = "manage"
    /\ inFlight' = Without(inFlight, k)
    /\ IF r.action = "approve"
       THEN /\ Len(providerHistory) < MaxLedger
            /\ withdrawals' = SetWithdrawalStatus(withdrawals, r.withdrawalId, "Approved")
            /\ history' = [history EXCEPT ![withdrawal.user_id] = <<approvedTx>> \o @]
            /\ UNCHANGED balance
       ELSE IF r.action = "reject"
       THEN /\ Len(providerHistory) < MaxLedger
            /\ withdrawals' = SetWithdrawalStatus(withdrawals, r.withdrawalId, "Rejected")
            /\ balance' = [balance EXCEPT ![withdrawal.user_id] =
                             RejectedNewBalance(@, withdrawal)]
            /\ history' = [history EXCEPT ![withdrawal.user_id] = <<rejectedTx>> \o @]
       ELSE /\ UNCHANGED <<balance, history, withdrawals>>   \* 200, nothing done
    /\ UNCHANGED <<username, users, premiumExpiresAt, role, referredBy, products, stock,
                   orders, today, lastWithdrawalId, withdrawalFee, withdrawing>>

\* POST /supplier/withdraw/cancel up to its SELECT of the pending request.
CancelRead(withdrawalId, userId) ==
    LET wRes == {w \in PendingOf(withdrawals, userId) : w.id = withdrawalId}
    IN
    /\ Len(inFlight) < MaxOverlap
    /\ inFlight' =
          IF wRes = {} THEN inFlight   \* 400 "No se puede cancelar"
          ELSE Append(inFlight,
                 [kind |-> "cancel", withdrawalId |-> withdrawalId,
                  userId |-> userId,
                  amountToReturn |-> (CHOOSE w \in wRes : TRUE).amount_original])
    /\ UNCHANGED <<username, users, premiumExpiresAt, balance, role, referredBy, history,
                   products, stock, orders, today, withdrawVars>>

\* POST /supplier/withdraw/cancel from its DELETE on.
CancelWrite(k) ==
    LET r == inFlight[k] IN
    /\ r.kind = "cancel"
    /\ inFlight' = Without(inFlight, k)
    /\ withdrawals' = {w \in withdrawals : w.id # r.withdrawalId}
    /\ balance' = [balance EXCEPT ![r.userId] =
                      CancelledNewBalance(@, r.amountToReturn)]   \* 200
    /\ UNCHANGED <<username, users, premiumExpiresAt, role, referredBy, history, products,
                   stock, orders, today, lastWithdrawalId, withdrawalFee,
                   withdrawing>>

\* The withdrawal desk under load: the provider's requests run one at a
\* time, the decisions and the cancel overlap.
NextManageRace ==
    \/ \E a \in WithdrawAmounts : Withdraw(1, a)
    \/ \E id \in WithdrawalIds, action \in WithdrawActions : ManageRead(id, action)
    \/ \E k \in 1..Len(inFlight) : ManageWrite(k)
    \/ \E id \in WithdrawalIds : CancelRead(id, 1)
    \/ \E k \in 1..Len(inFlight) : CancelWrite(k)

SpecManageRace == InitWithdraw /\ [][NextManageRace]_vars

\* ------------------------------------------------------ maintenance sweeps
\* The sweeps read two fields the other handlers leave alone: tx.orderCode
\* and tx.details.provider (with tx.details.isLegacy).  A missing field is
\* <<>>, a stored one <<value>>.
MaxSwept == 2

Swept(id, type, orderCode) ==
    [orderCode |-> orderCode, provider |-> <<>>, isLegacy |-> FALSE]
    @@ Entry(id, "COMPRA", 1000, type, "Completada")

\* A purchase entry with its details: the provider's name as the ticket
\* shows it, the stock row of its first credential (0: a credential with no
\* stockId) and the product's name.
Ticket(id, orderCode, provider, credentials, productName) ==
    [Swept(id, "debit", orderCode)
     EXCEPT !.hasDetails = TRUE, !.provider = provider,
            !.fullCredentials = credentials, !.productName = productName]

\* SELECT u.username FROM product_stock ps JOIN users u
\* ON ps.provider_user_id = u.id WHERE ps.id = ?
ProviderOfStock(stockId) ==
    IF RowExists(stock, stockId) /\ stock[stockId].provider_user_id \in users
    THEN <<username[stock[stockId].provider_user_id]>>
    ELSE <<>>

\* SELECT u.username FROM products p JOIN users u
\* ON p.creator_user_id = u.id WHERE p.name = ? LIMIT 1
ProviderOfProduct(productName) ==
    IF productName \in DOMAIN products
       /\ products[productName].creator_user_id \in users
    THEN <<username[products[productName].creator_user_id]>>
    ELSE <<>>

\* tx.details.fullCredentials?.[0]?.stockId, 0 when there is none.
FirstStockId(tx) ==
    IF Len(tx.fullCredentials) > 0 THEN tx.fullCredentials[1] ELSE 0

\* `#ORD-${base.slice(-6).toUpperCase()}` for an entry with an id, a random
\* code for one without.
OrderCodeFor(tx, random) ==
    IF tx.id # <<>> THEN <<"#ORD-", tx.id>> ELSE <<"#ORD-", random>>

\* GET /fix-broken-transactions looks at the provider of this entry.
BrokenProvider(tx) ==
    /\ tx.type = "debit"
    /\ tx.hasDetails
    /\ tx.provider = <<>> \/ tx.provider = <<"MeluStreaming">>

\* One pass of the loop of GET /fix-broken-transactions over an entry.
FixBrokenTx(tx, random) ==
    LET coded == IF tx.orderCode = <<>>
                 THEN [tx EXCEPT !.orderCode = OrderCodeFor(tx, random)]
                 ELSE tx
        foundProvider == ProviderOfStock(FirstStockId(tx))
    IN
    IF tx.type # "debit" THEN tx
    ELSE IF ~BrokenProvider(tx) THEN coded
    ELSE IF foundProvider = <<>>
    THEN [coded EXCEPT !.provider = <<"LEGACY">>, !.isLegacy = TRUE]
    ELSE [coded EXCEPT !.provider = foundProvider]

\* The ledgers GET /fix-broken-transactions stores, and the two counts of
\* its response.
FixBroken(ledgers, random) ==
    [u \in UserIds |-> [i \in 1..Len(ledgers[u]) |->
                           FixBrokenTx(ledgers[u][i], random[i])]]

FixedOrderCode(ledgers) ==
    Cardinality({<<u, i>> \in UserIds \X (1..MaxLedger) :
                    /\ i <= Len(ledgers[u])
                    /\ ledgers[u][i].type = "debit"
                    /\ ledgers[u][i].orderCode = <<>>})

FixedProvider(ledgers) ==
    Cardinality({<<u, i>> \in UserIds \X (1..MaxLedger) :
                    /\ i <= Len(ledgers[u])
                    /\ BrokenProvider(ledgers[u][i])
                    /\ ProviderOfStock(FirstStockId(ledgers[u][i])) # <<>>})

\* GET /fix-old-tickets: the provider the database names for this entry, by
\* the stock row first and by the product's name otherwise.
RealProviderUsername(tx) ==
    LET byStock == IF FirstStockId(tx) # 0
                   THEN ProviderOfStock(FirstStockId(tx)) ELSE <<>>
    IN IF byStock # <<>> THEN byStock
       ELSE IF tx.productName # 0 THEN ProviderOfProduct(tx.productName)
       ELSE <<>>

OutOfDate(tx) ==
    /\ tx.type = "debit"
    /\ tx.hasDetails
    /\ RealProviderUsername(tx) # <<>>
    /\ tx.provider # RealProviderUsername(tx)

FixOldTx(tx) ==
    IF OutOfDate(tx) THEN [tx EXCEPT !.provider = RealProviderUsername(tx)] ELSE tx

FixOld(ledgers) ==
    [u \in UserIds |-> [i \in 1..Len(ledgers[u]) |-> FixOldTx(ledgers[u][i])]]

TotalFixed(ledgers) ==
    Cardinality({<<u, i>> \in UserIds \X (1..MaxLedger) :
                    i <= Len(ledgers[u]) /\ OutOfDate(ledgers[u][i])})

RandomCodes == {"K3X9QA", "7ZP0LM"}

\* GET /fix-broken-transactions
FixBrokenTransactions(random) ==
    /\ history' = FixBroken(history, random)
    /\ UNCHANGED <<username, inFlight, users, premiumExpiresAt, balance, role,
                   referredBy, products, stock, orders, today, withdrawVars>>

\* GET /fix-old-tickets
FixOldTickets ==
    /\ history' = FixOld(history)
    /\ UNCHANGED <<username, inFlight, users, premiumExpiresAt, balance, role,
                   referredBy, products, stock, orders, today, withdrawVars>>

\* The entries the sweeps may meet in a ledger: with and without an id, an
\* order code, details, a provider and a stock link.
SweptEntries ==
    {Swept(<<>>, "credit", <<>>)}
    \cup {Swept(id, "debit", c) : id \in {<<>>, <<2, 1>>}, c \in {<<>>, <<"#ORD-OLD1">>}}
    \cup {Ticket(id, c, p, creds, 1) :
             id \in {<<>>, <<2, 1>>}, c \in {<<>>, <<"#ORD-OLD1">>},
             p \in {<<>>, <<"MeluStreaming">>, <<"ana">>},
             creds \in {<<>>, <<1>>, <<2>>}}

SweptLedgers ==
    UNION {[1..n -> SweptEntries] : n \in 0..MaxSwept}

\* Any visitor registers with the username they choose.
InitSweep ==
    /\ balance = [u \in UserIds |-> 0]
    /\ role = [u \in UserIds |-> IF u = 1 THEN "proveedor" ELSE "Usuario"]
    /\ referredBy = [u \in UserIds |-> 0]
    /\ history \in {[u \in UserIds |-> IF u = 2 THEN h ELSE <<>>] : h \in SweptLedgers}
    /\ stock = <<[StockRow(1, "Publicado") EXCEPT !.is_sold = TRUE,
                                                  !.sold_to_user_id = 2]>>
    /\ products = [p \in ProductIds |->
                     [stock |-> 0, creator_user_id |-> 1,
                      delivery |-> "Autoentrega",
                      duration |-> [digits |-> <<3, 0>>, unit |-> "Días"]]]
    /\ orders = <<>>
    /\ today = 0
    /\ NoWithdrawals
    /\ NoPremium
    /\ users = UserIds
    /\ inFlight = <<>>
    /\ username \in {[Registered EXCEPT ![1] = n] : n \in {"ana", "MeluStreaming"}}

NextSweep ==
    \/ \E random \in [1..MaxLedger -> RandomCodes] : FixBrokenTransactions(random)
    \/ FixOldTickets

SpecSweep == InitSweep /\ [][NextSweep]_vars

\* ------------------------------------------------ properties of the shop

\* The entry of the ledger h whose id is `id`.
LedgerEntry(h, id) == h[FindIndex(WithId(h, id))]

\* The requests the shop's properties range over.
PurchaseRequests ==
    Buyers \X ProductIds \X (1..MaxQty) \X PurchaseAmounts
           \X {"Autoentrega", "A pedido"}

\* The step is the purchase r, answered 200 (a purchase answered 200
\* always lengthens the buyer's ledger).
PurchaseCompleted(r) ==
    /\ Len(history'[r[1]]) > Len(history[r[1]])
    /\ PurchaseStatus(r[1], r[2], r[3], r[4]) = 200
    /\ Purchase(r[1], r[2], r[3], r[4], r[5])

\* The step is a handle-support refund that paid, or a /supplier/refund
\* that paid.
RefundCompleted ==
    \/ \E u \in Buyers : \E t \in PurchaseIds(u) :
          HandleSupport(t, "refund") /\ history' # history
    \/ \E id \in 1..Len(stock), a \in RefundAmounts :
          SupplierRefund(id, a) /\ history' # history

\* The cached counter of product p equals the sum updateProductStock computes.
CounterMatchesPool(p) == products[p].stock = PoolSum(stock, p)

\* C1: if a product's stock counter equals the sum of the quantities of its
\* unsold published records, it does so again after every completed purchase
\* and after every completed refund of /supplier/handle-support and
\* /supplier/refund.
C1_CounterMatchesPoolAfterStockOperations ==
    [][\A p \in ProductIds :
          (/\ CounterMatchesPool(p)
           /\ \/ \E r \in PurchaseRequests : PurchaseCompleted(r)
              \/ RefundCompleted)
          => CounterMatchesPool(p)']_vars

\* C2: a purchase of quantity N from a pool whose unsold published records
\* hold fewer than N units is answered 409 and changes no stock record, no
\* counter, no balance, no ledger and no order.
C2_InsufficientStockMutatesNothing ==
    [][\A r \in PurchaseRequests :
          (/\ balance[r[1]] >= r[4]
           /\ PoolSum(stock, r[2]) < r[3]
           /\ Purchase(r[1], r[2], r[3], r[4], r[5]))
          => /\ PurchaseStatus(r[1], r[2], r[3], r[4]) = 409
             /\ UNCHANGED <<stock, products, balance, history, orders>>]_vars

\* C3: a purchase of quantity N >= 1 by a buyer with enough balance, from a
\* pool holding at least N units, is answered 200 and the fullCredentials of
\* the buyer's new entry has exactly N entries.
C3_CredentialsListHasOneEntryPerUnit ==
    [][\A r \in PurchaseRequests :
          (/\ balance[r[1]] >= r[4]
           /\ PoolSum(stock, r[2]) >= r[3]
           /\ Purchase(r[1], r[2], r[3], r[4], r[5]))
          => /\ PurchaseStatus(r[1], r[2], r[3], r[4]) = 200
             /\ Len(LedgerEntry(history'[r[1]],
                                NewId(r[1], history[r[1]])).fullCredentials)
                = r[3]]_vars

\* The units of the rows of `after` that the step marked or created as sold
\* to the user u: sold to u in `after`, and absent or unsold in `before`.
RECURSIVE SoldUnits(_, _, _)
SoldUnits(before, after, u) ==
    IF after = <<>> THEN 0
    ELSE LET i == Len(after)
             row == after[i]
         IN  SoldUnits(before, SubSeq(after, 1, i - 1), u)
             + (IF /\ row.is_sold
                   /\ row.sold_to_user_id = u
                   /\ (i > Len(before) \/ ~before[i].is_sold)
                THEN ParseQuantity(row.quantity) ELSE 0)

\* C4: a completed purchase of quantity N marks or creates as sold to the
\* buyer records whose quantities sum to N, and lowers the sum of the
\* quantities of the product's unsold published records by N, whether
\* records are split or consumed whole.
C4_PurchaseConservesUnits ==
    [][\A r \in PurchaseRequests :
          PurchaseCompleted(r)
          => /\ SoldUnits(stock, stock', r[1]) = r[3]
             /\ PoolSum(stock', r[2]) = PoolSum(stock, r[2]) - r[3]]_vars

\* A purchase of two units consumed row 1 whole and split row 2.
C4_Witness ==
    \E u \in Buyers : \E i \in 1..Len(history[u]) :
        /\ history[u][i].description = "Compra"
        /\ history[u][i].quantity = 2
        /\ history[u][i].fullCredentials = <<1, 3>>
        /\ Len(stock) = 3
        /\ stock[1].is_sold /\ stock[1].sold_to_user_id = u
        /\ stock[3].is_sold /\ stock[3].sold_to_user_id = u
        /\ ~stock[2].is_sold /\ stock[2].quantity = 1

\* The user u gained, at the head of the ledger, exactly the entries `news`
\* (given as <<type, amount>> pairs, newest first).
Gained(u, news) ==
    /\ Len(history'[u]) = Len(history[u]) + Len(news)
    /\ SubSeq(history'[u], Len(news) + 1, Len(history'[u])) = history[u]
    /\ \A k \in 1..Len(news) :
          /\ history'[u][k].type = news[k][1]
          /\ history'[u][k].amount = news[k][2]

\* The buyer paid `amount` and gained one debit entry, the provider received
\* `amount` and gained one credit entry.
BuyerPaysProvider(buyer, provider, amount) ==
    /\ balance'[buyer] = balance[buyer] - amount
    /\ balance'[provider] = balance[provider] + amount
    /\ Gained(buyer, << <<"debit", amount>> >>)
    /\ Gained(provider, << <<"credit", amount>> >>)

\* C5, as stated: every completed purchase of price `amount` lowers the
\* buyer's balance by amount, raises the provider's by amount, and gives
\* each of the two exactly one ledger entry.
C5_PurchaseMovesAmount_AsStated ==
    [][\A r \in PurchaseRequests :
          PurchaseCompleted(r)
          => BuyerPaysProvider(r[1], products[r[2]].creator_user_id, r[4])]_vars

\* C5: a completed purchase of price `amount` by a buyer who is not the
\* product's creator lowers the buyer's balance by amount, raises the
\* creator's by amount and gives each one ledger entry; when the buyer is
\* the creator, the balance is unchanged and the user gains both entries.
C5_PurchaseMovesAmount ==
    [][\A r \in PurchaseRequests :
          PurchaseCompleted(r)
          => LET provider == products[r[2]].creator_user_id IN
             IF r[1] # provider
             THEN BuyerPaysProvider(r[1], provider, r[4])
             ELSE /\ balance'[provider] = balance[provider]
                  /\ Gained(provider, << <<"credit", r[4]>>, <<"debit", r[4]>> >>)]_vars

\* User 2 bought from user 1: one debit, one credit, 1000 moved.
C5_Witness ==
    /\ balance[2] = 1000 /\ balance[1] = 1000
    /\ Len(history[2]) = 1 /\ history[2][1].description = "Compra"
    /\ history[2][1].type = "debit" /\ history[2][1].amount = 1000
    /\ Len(history[1]) = 1 /\ history[1][1].description = "Venta"
    /\ history[1][1].type = "credit" /\ history[1][1].amount = 1000

\* C6: in every reachable state every user's balance is at least zero.
C6_BalancesNeverNegative == \A u \in UserIds : balance[u] >= 0

\* ------------------------------------------ properties of the support desk

\* The refund credits in the ledger of u: the entries the handle-support
\* refund ('Reembolso') and the proportional refund ('REEMBOLSO RECIBIDO')
\* add to the buyer's ledger.
RefundCredits(u) ==
    Cardinality({i \in 1..Len(history[u]) :
                    /\ history[u][i].type = "credit"
                    /\ history[u][i].description
                          \in {"Reembolso", "REEMBOLSO RECIBIDO"}})

\* C7: once a purchase is 'Devuelto' no later operation credits the buyer a
\* second refund for it.  The two refunds of the support desk each credit
\* one refund entry on account of one purchase and leave that purchase
\* 'Devuelto', so no ledger ever holds more refund credits than purchases.
C7_NoSecondRefund ==
    \A u \in UserIds : RefundCredits(u) <= Cardinality(PurchaseIds(u))

\* The status changes of the support state machine.
SupportTransitions ==
    { <<"Completada", "Soporte">>, <<"Soporte", "Completada">>,
      <<"Soporte", "Esperando aprobación">>, <<"Soporte", "Devuelto">>,
      <<"Esperando aprobación", "Completada">> }

\* C10: every step leaves the status of every purchase entry as it was or
\* changes it along one of the support state machine's transitions.
C10_StatusFollowsSupportMachine ==
    [][\A u \in UserIds : \A t \in PurchaseIds(u) :
          LET old == LedgerEntry(history[u], t).status
              new == LedgerEntry(history'[u], t).status
          IN  old = new \/ <<old, new>> \in SupportTransitions]_vars

\* ----------------------------------------- properties of the recharge desk

\* The commission entries in the ledger of r on account of the user u.
CommissionEntries(r, u) ==
    {i \in 1..Len(history[r]) :
        /\ history[r][i].description = "Comisión"
        /\ history[r][i].sourceUser = u}

\* C8: no referrer's ledger ever holds more than one commission entry on
\* account of one referred user.
C8_CommissionAtMostOncePerUser ==
    \A r \in UserIds, u \in UserIds : Cardinality(CommissionEntries(r, u)) <= 1

\* The rate table of the claim, in percent.
StatedRate(referrerRole) ==
    IF referrerRole = "Distribuidor Premium" THEN 15
    ELSE IF referrerRole \in {"distribuidor", "proveedor"} THEN 10
    ELSE 0

\* The commission the claim states for the approval of `amount` for u:
\* amount * rate to the nearest cent, 0 when u has no referrer.
StatedCommission(u, amount) ==
    IF referredBy[u] = 0 THEN 0
    ELSE RoundDiv(amount * StatedRate(role[referredBy[u]]), 100)

\* u's ledger holds no Completed credit, u has a referrer, and the
\* referrer's role has a rate.
CommissionDue(u) ==
    /\ \A i \in 1..Len(history[u]) :
          ~(history[u][i].status = "Completada" /\ history[u][i].type = "credit")
    /\ referredBy[u] # 0
    /\ StatedRate(role[referredBy[u]]) > 0

\* The approval of u's Pending entry t credited u the entry's amount and,
\* when `paid`, credited the referrer the stated commission with one entry
\* referencing u; otherwise it changed no other user.
ApprovalOutcome(u, t, paid) ==
    LET amount == LedgerEntry(history[u], t).amount
        referrer == referredBy[u]
        commission == StatedCommission(u, amount)
    IN  /\ balance'[u] = balance[u] + amount
        /\ LedgerEntry(history'[u], t).status = "Completada"
        /\ IF paid
           THEN /\ balance'[referrer] = balance[referrer] + commission
                /\ Gained(referrer, << <<"credit", commission>> >>)
                /\ history'[referrer][1].isCommission
                /\ history'[referrer][1].sourceUser = u
                /\ \A v \in UserIds \ {u, referrer} :
                      balance'[v] = balance[v] /\ history'[v] = history[v]
           ELSE \A v \in UserIds \ {u} :
                      balance'[v] = balance[v] /\ history'[v] = history[v]

\* The step is the approval of u's Pending entry t.
ApproveCompleted(u, t) ==
    /\ LedgerEntry(history[u], t).status = "Pendiente"
    /\ TransactionApprove(u, t)

\* C9, as stated: an approval pays the commission exactly when u had no
\* Completed credit, has a referrer, and the referrer's role has a rate.
C9_CommissionOnFirstRecharge_AsStated ==
    [][\A u \in Rechargers : \A t \in LedgerIds(u) :
          ApproveCompleted(u, t) => ApprovalOutcome(u, t, CommissionDue(u))]_vars

\* C9: an approval pays the commission exactly when u had no Completed
\* credit, has a referrer, the referrer's role has a rate, and the
\* commission, rounded to the cent, is greater than zero; the commission is
\* amount * rate rounded to the cent (15% Distribuidor Premium, 10%
\* distribuidor and proveedor), and u's balance rises by the amount.
C9_CommissionOnFirstRecharge ==
    [][\A u \in Rechargers : \A t \in LedgerIds(u) :
          ApproveCompleted(u, t)
          => ApprovalOutcome(u, t,
                /\ CommissionDue(u)
                /\ StatedCommission(u, LedgerEntry(history[u], t).amount) > 0)]_vars

\* User 2's first recharge of 5000 was approved and its referrer, a
\* distribuidor, holds the commission of 500.
C9_Witness ==
    /\ referredBy[2] = 3 /\ role[3] = "distribuidor"
    /\ balance[2] = 5000 /\ balance[3] = 500
    /\ Len(history[2]) = 1 /\ history[2][1].status = "Completada"
    /\ history[2][1].amount = 5000
    /\ Len(history[3]) = 1 /\ history[3][1].description = "Comisión"
    /\ history[3][1].amount = 500 /\ history[3][1].sourceUser = 2

\* The ids of a user's recharges.
RechargeIds(u) ==
    {history[u][i].id : i \in {j \in 1..Len(history[u]) :
                                  history[u][j].description = "Recarga"}}

\* The status changes of a recharge: out of 'Pendiente' only.
RechargeTransitions ==
    { <<"Pendiente", "Completada">>, <<"Pendiente", "Rechazada">>,
      <<"Pendiente", "Cancelada">> }

\* C11: every step leaves the status of every recharge as it was or moves
\* it from 'Pendiente' to 'Completada', 'Rechazada' or 'Cancelada' (so a
\* 'Rechazada' or 'Cancelada' recharge never changes status again), and a
\* step that leaves a recharge 'Rechazada' or 'Cancelada' changes no balance
\* on its account: approve, reject and cancel of a recharge that is not
\* 'Pendiente' change nothing.
C11_RechargeStatusOneDirectional ==
    [][\A u \in Rechargers : \A t \in RechargeIds(u) :
          LET old == LedgerEntry(history[u], t).status
              new == LedgerEntry(history'[u], t).status
          IN  /\ old = new \/ <<old, new>> \in RechargeTransitions
              /\ (old # "Pendiente" /\ (\/ TransactionApprove(u, t)
                                        \/ TransactionReject(u, t)
                                        \/ TransactionCancel(u, t)))
                 => UNCHANGED <<balance, history>>]_vars

\* ------------------------------------------- properties of the refund desk

\* The refund the claim states for the purchase tx refunded on day `now`:
\* the days of the duration label read as a decimal number, the whole days
\* used, the remaining share of the amount to the nearest cent.
StatedRefund(tx, now) ==
    LET totalDays == ParseInt(tx.duration.digits, 10)
        daysUsed == now - tx.purchaseDate
    IN  RoundDiv(Max(0, totalDays - daysUsed) * tx.amount, totalDays)

\* The step is handle-support 'refund' on u's purchase t, found in support.
SupportRefundRequested(u, t) ==
    /\ LedgerEntry(history[u], t).status = "Soporte"
    /\ HandleSupport(t, "refund")

\* C12: handle-support 'refund' credits the buyer
\* round2(max(0, totalDays - daysUsed) * amount / totalDays), totalDays being
\* the decimal number of the duration label (30.00 with '30 Días' refunded
\* after 10 days credits 20.00), and when that refund is 0 (31 days or more)
\* it changes nothing.
C12_RefundIsProportionalToDaysLeft ==
    [][\A u \in Buyers : \A t \in PurchaseIds(u) :
          SupportRefundRequested(u, t)
          => LET refund == StatedRefund(LedgerEntry(history[u], t), today) IN
             IF refund > 0
             THEN balance'[u] = balance[u] + refund
             ELSE UNCHANGED <<balance, history, stock, products>>]_vars

\* The step is a handle-support refund of u's purchase t that paid.
SupportRefundPaid(u, t) ==
    /\ Len(history'[u]) > Len(history[u])
    /\ SupportRefundRequested(u, t)

\* What a refund that paid does to the buyer u: the balance rises by the
\* computed refund, the ledger gains one credit entry of that amount above
\* the old entries, the purchase t is 'Devuelto', no other entry changes.
BuyerRefunded(u, t) ==
    LET refund == ProportionalAmount(LedgerEntry(history[u], t), today) IN
    /\ balance'[u] = balance[u] + refund
    /\ Len(history'[u]) = Len(history[u]) + 1
    /\ history'[u][1].type = "credit"
    /\ history'[u][1].amount = refund
    /\ \A k \in 1..Len(history[u]) :
          IF history[u][k].id = t
          THEN history'[u][k + 1].status = "Devuelto"
          ELSE history'[u][k + 1] = history[u][k]

\* The step leaves the balance and the ledger of user pr as they were.
Untouched(pr) ==
    /\ balance'[pr] = balance[pr]
    /\ history'[pr] = history[pr]

\* C13 as stated: a handle-support refund that paid credits the buyer the
\* computed refund with one credit entry, sets the purchase 'Devuelto', and
\* leaves the balance and the ledger of the provider unchanged, whoever the
\* buyer is.
C13_SupportRefundCreditsBuyerOnly_AsStated ==
    [][\A u \in Buyers : \A t \in PurchaseIds(u) :
          SupportRefundPaid(u, t)
          => /\ BuyerRefunded(u, t)
             /\ \A pr \in Providers : Untouched(pr)]_vars

\* C13: a handle-support refund that paid credits the buyer the computed
\* refund with one credit entry and sets the purchase 'Devuelto'; a provider
\* who is not the buyer keeps balance and ledger unchanged.
C13_SupportRefundCreditsBuyerOnly ==
    [][\A u \in Buyers : \A t \in PurchaseIds(u) :
          SupportRefundPaid(u, t)
          => /\ BuyerRefunded(u, t)
             /\ \A pr \in Providers \ {u} : Untouched(pr)]_vars

\* The customer's purchase of 30.00 was refunded: the credit is on top of the
\* customer's ledger and in the balance, the purchase is 'Devuelto', and the
\* provider still holds only the sale.
C13_Witness ==
    /\ Len(history[2]) = 2
    /\ history[2][1].description = "Reembolso"
    /\ history[2][1].type = "credit"
    /\ history[2][2].description = "Compra"
    /\ history[2][2].status = "Devuelto"
    /\ balance[2] = history[2][1].amount
    /\ balance[2] > 0
    /\ Len(history[1]) = 1
    /\ balance[1] = 6000

\* The sum of the balances b of the users in S.
RECURSIVE SumOfBalances(_, _)
SumOfBalances(b, S) ==
    IF S = {} THEN 0
    ELSE LET u == CHOOSE x \in S : TRUE IN b[u] + SumOfBalances(b, S \ {u})

\* The ledger h holds a refund entry of the given type and amount on top.
RefundEntryOnTop(h, type, amount) ==
    /\ Len(h) > 0
    /\ h[1].isRefund
    /\ h[1].type = type
    /\ h[1].amount = amount

\* C14: every accepted /supplier/refund/proportional of amount X, the same
\* user in both roles included, leaves the sum of all balances unchanged and
\* both the provider's debit entry and the buyer's credit entry in the
\* ledgers; between two different users the provider's balance falls by X and
\* the buyer's rises by X.
C14_ProportionalRefundConservesMoney ==
    [][\A u \in Buyers : \A t \in PurchaseIds(u) :
       \A a \in RefundAmounts, pr \in Buyers :
          (history' # history /\ RefundProportional(u, t, a, pr))
          => /\ SumOfBalances(balance', UserIds) = SumOfBalances(balance, UserIds)
             /\ \E k \in 1..Len(history'[pr]) :
                   /\ history'[pr][k].isRefund
                   /\ history'[pr][k].type = "debit"
                   /\ history'[pr][k].amount = a
             /\ RefundEntryOnTop(history'[u], "credit", a)
             /\ pr # u => /\ balance'[pr] = balance[pr] - a
                          /\ balance'[u] = balance[u] + a]_vars

\* ---------------------------------------- properties of the withdrawal desk

\* C15: in every reachable state each user has at most one withdrawal with
\* status 'Pending', also when two /supplier/withdraw requests of the same
\* user overlap.
C15_AtMostOnePendingPerUser ==
    \A u \in Withdrawers : Cardinality(PendingOf(withdrawals, u)) <= 1

\* The rate the desk applies: the stored withdrawal_fee, or 0.10 when none
\* is stored (in thousandths).
StatedFeeRate == IF withdrawalFee = <<>> THEN 100 ELSE withdrawalFee[1]

\* The step is a /supplier/withdraw of user u for amount a that was accepted.
WithdrawAccepted(u, a) ==
    /\ lastWithdrawalId' # lastWithdrawalId
    /\ Withdraw(u, a)

\* C16: an accepted /supplier/withdraw of gross amount A at fee rate r adds
\* one Pending withdrawal with amount_original = A and amount_final = A - A*r,
\* lowers the user's balance by exactly A and adds no ledger entry; a request
\* for more than the balance changes nothing.
C16_WithdrawHoldsGrossRecordsNet ==
    [][\A u \in Withdrawers, a \in WithdrawAmounts :
          /\ WithdrawAccepted(u, a)
             => /\ \E w \in withdrawals' \ withdrawals :
                      /\ withdrawals' = withdrawals \cup {w}
                      /\ w.user_id = u
                      /\ w.status = "Pending"
                      /\ w.amount_original = a
                      /\ 1000 * w.amount_final = 1000 * a - a * StatedFeeRate
                /\ balance' = [balance EXCEPT ![u] = @ - a]
                /\ history' = history
          /\ (a > balance[u] /\ Withdraw(u, a))
             => UNCHANGED <<balance, history, withdrawals>>]_vars

\* User 1 asked for 100.00 at the default 10%: 100.00 is held, the request
\* is Pending with net 90.00, and the ledger is still empty.
C16_Witness ==
    /\ balance[1] = 20000
    /\ history[1] = <<>>
    /\ \E w \in withdrawals :
          /\ w.user_id = 1
          /\ w.status = "Pending"
          /\ w.amount_original = 10000
          /\ w.amount_final = 9000

\* The withdrawals row with the given id.
WithdrawalRow(rows, id) == CHOOSE w \in rows : w.id = id

\* The ids of the withdrawals in the table with the given status.
IdsWithStatus(status) == {w.id : w \in {x \in withdrawals : x.status = status}}

\* Between this state and the next only the row id changed, and only its
\* status, which is now the given one.
OnlyStatusSet(id, status) ==
    withdrawals' = (withdrawals \ {WithdrawalRow(withdrawals, id)})
                     \cup {[WithdrawalRow(withdrawals, id) EXCEPT !.status = status]}

\* C17: approving a Pending withdrawal sets its status to 'Approved', puts
\* exactly one debit entry of its net amount (amount_final) on the requesting
\* user's ledger and leaves every balance unchanged.
C17_ApproveRecordsNetDebit ==
    [][\A id \in IdsWithStatus("Pending") :
          WithdrawManage(id, "approve")
          => LET w == WithdrawalRow(withdrawals, id) IN
             /\ OnlyStatusSet(id, "Approved")
             /\ Len(history'[w.user_id]) = Len(history[w.user_id]) + 1
             /\ Tail(history'[w.user_id]) = history[w.user_id]
             /\ history'[w.user_id][1].type = "debit"
             /\ history'[w.user_id][1].amount = w.amount_final
             /\ \A u \in UserIds \ {w.user_id} : history'[u] = history[u]
             /\ balance' = balance]_vars

\* User 1's request for 100.00 was approved: the row is 'Approved', the
\* ledger holds the one debit of 90.00 and the balance still lacks the 100.00.
C17_Witness ==
    /\ \E w \in withdrawals :
          /\ w.user_id = 1
          /\ w.status = "Approved"
          /\ w.amount_final = 9000
    /\ Len(history[1]) = 1
    /\ history[1][1].type = "debit"
    /\ history[1][1].amount = 9000
    /\ history[1][1].isWithdrawal
    /\ balance[1] = 20000

\* The sum of the gross amounts (amount_original) of the rows given.
RECURSIVE SumOriginal(_)
SumOriginal(rows) ==
    IF rows = {} THEN 0
    ELSE LET w == CHOOSE x \in rows : TRUE
         IN  w.amount_original + SumOriginal(rows \ {w})

\* What user u's requests hold: the gross amounts of u's withdrawals that
\* are Pending or Approved.
Held(u) ==
    SumOriginal({w \in withdrawals :
                    w.user_id = u /\ w.status \in {"Pending", "Approved"}})

\* The step rejects the Pending withdrawal id: the row becomes 'Rejected',
\* its gross amount goes back to the user's balance, and the user's ledger
\* gains exactly one credit entry of the gross amount.
RejectGivesGrossBack(id) ==
    LET w == WithdrawalRow(withdrawals, id) IN
    /\ OnlyStatusSet(id, "Rejected")
    /\ balance' = [balance EXCEPT ![w.user_id] = @ + w.amount_original]
    /\ Len(history'[w.user_id]) = Len(history[w.user_id]) + 1
    /\ Tail(history'[w.user_id]) = history[w.user_id]
    /\ history'[w.user_id][1].type = "credit"
    /\ history'[w.user_id][1].amount = w.amount_original
    /\ \A u \in UserIds \ {w.user_id} : history'[u] = history[u]

\* C18: a withdrawal request followed by its rejection is a balance round
\* trip.  While a user's requests run one at a time, the balance plus the
\* gross amounts held by the user's Pending and Approved withdrawals is the
\* balance the user started with, so a request of A takes the balance from b
\* to b - A; rejecting it marks it 'Rejected', adds A to the balance, which is
\* b again, and adds exactly one credit entry of A to the user's ledger.
C18_RequestThenRejectRestoresBalance ==
    /\ [](\A u \in Withdrawers : balance[u] + Held(u) = OpeningBalance[u])
    /\ [][\A id \in IdsWithStatus("Pending") :
             WithdrawManage(id, "reject") => RejectGivesGrossBack(id)]_vars

\* User 1 asked for 100.00 and was rejected: the balance is the 300.00 of
\* before the request, the row is 'Rejected', the ledger holds the one credit
\* of 100.00.
C18_Witness ==
    /\ withdrawals = {[id |-> 1, user_id |-> 1, amount_original |-> 10000,
                       amount_final |-> 9000, status |-> "Rejected"]}
    /\ balance[1] = OpeningBalance[1]
    /\ Len(history[1]) = 1
    /\ history[1][1].type = "credit"
    /\ history[1][1].amount = 10000

\* The Pending withdrawals with the given id that belong to user u.
CancellableBy(id, u) == {w \in PendingOf(withdrawals, u) : w.id = id}

\* C19: a withdrawal request followed by the provider's cancel restores the
\* prior state.  A request holds its gross amount and writes no ledger entry
\* (the balance plus the amounts held is the opening balance, and with no
\* decision of the admin the ledgers are as they were); cancelling the
\* user's own Pending withdrawal removes the row, gives the gross amount back
\* and adds no ledger entry; a cancel of a withdrawal that is not Pending,
\* does not exist or belongs to another user changes nothing.
C19_RequestThenCancelRestoresState ==
    /\ [](\A u \in Withdrawers :
             /\ balance[u] + Held(u) = OpeningBalance[u]
             /\ (\A w \in withdrawals : w.user_id = u => w.status = "Pending")
                => history[u] = <<>>)
    /\ [][\A id \in WithdrawalIds, u \in Withdrawers :
             WithdrawCancel(id, u)
             => IF CancellableBy(id, u) # {}
                THEN LET w == WithdrawalRow(withdrawals, id) IN
                     /\ withdrawals' = withdrawals \ {w}
                     /\ balance' = [balance EXCEPT ![u] = @ + w.amount_original]
                     /\ history' = history
                ELSE UNCHANGED <<balance, history, withdrawals>>]_vars

\* User 1 asked for 100.00 and cancelled: the one id ever given out names no
\* row, the balances are the opening ones and the ledgers are empty.
C19_Witness ==
    /\ lastWithdrawalId = 1
    /\ withdrawals = {}
    /\ balance = OpeningBalance
    /\ \A u \in UserIds : history[u] = <<>>

WithdrawalTransitions ==
    { <<"Pending", "Approved">>, <<"Pending", "Rejected">> }

\* The withdrawal id keeps its status in this step or follows the machine.
StatusFollowsMachine(id) ==
    \A w \in withdrawals : \A x \in withdrawals' :
        (w.id = id /\ x.id = id)
        => (w.status = x.status \/ <<w.status, x.status>> \in WithdrawalTransitions)

\* If this step raises the balance of user u, it gives back the gross amount
\* of one of u's withdrawals that was Pending and no longer is.
RestoresOnlyPending(u) ==
    balance'[u] > balance[u]
    => \E w \in PendingOf(withdrawals, u) :
          /\ balance'[u] = balance[u] + w.amount_original
          /\ w \notin withdrawals'
          /\ PendingOf(withdrawals', u) = PendingOf(withdrawals, u) \ {w}

\* C20: with requests that run one at a time, a withdrawal's status changes
\* only from 'Pending' to 'Approved' or from 'Pending' to 'Rejected';
\* /admin/withdraw/manage on a withdrawal that is already Approved or
\* Rejected changes no status, balance or ledger; and a balance only rises
\* by the gross amount of a withdrawal that was Pending and stops being so,
\* hence at most once per withdrawal and never after its approval.
C20_WithdrawalStatusMachine ==
    [][/\ \A id \in WithdrawalIds : StatusFollowsMachine(id)
       /\ \A id \in IdsWithStatus("Approved") \cup IdsWithStatus("Rejected") :
             \A action \in WithdrawActions :
                WithdrawManage(id, action)
                => UNCHANGED <<withdrawals, balance, history>>
       /\ \A u \in Withdrawers : RestoresOnlyPending(u)]_vars

\* User 1 holds a rejected request of 100.00 and an approved one of 200.00:
\* the 100.00 came back once, the 200.00 did not.
C20_Witness ==
    /\ \E w \in withdrawals :
          w.user_id = 1 /\ w.status = "Rejected" /\ w.amount_original = 10000
    /\ \E w \in withdrawals :
          w.user_id = 1 /\ w.status = "Approved" /\ w.amount_original = 20000
    /\ balance[1] = OpeningBalance[1] - 20000
    /\ Len(history[1]) = 2

\* --------------------------------------- properties of the membership desk

\* The role a lapsed membership falls back to.
StatedDemotion(storedRole) ==
    CASE storedRole = "Proveedor Premium" -> "proveedor"
      [] storedRole = "Distribuidor Premium" -> "distribuidor"
      [] OTHER -> "Usuario"

\* The step is a role-resolving read of user u.
RoleRead(u) == GetProfile(u) \/ Login(u)

\* C21: a role-resolving read (GET /profile/:userId, POST /login) of a user
\* whose premium_expires_at is set and in the past returns and persists the
\* demoted role - 'proveedor' for 'Proveedor Premium', 'distribuidor' for
\* 'Distribuidor Premium', 'Usuario' for any other role - with
\* premium_expires_at NULL; with the expiry absent or in the future it
\* returns the stored role and changes nothing; a second read after the
\* demotion would return the same role.
C21_ReadDemotesLapsedPremium ==
    [][\A u \in PremiumUsers :
          RoleRead(u)
          => /\ IF premiumExpiresAt[u] # <<>> /\ premiumExpiresAt[u][1] < today
                THEN /\ ResolvedRole(u) = StatedDemotion(role[u])
                     /\ role' = [role EXCEPT ![u] = StatedDemotion(role[u])]
                     /\ premiumExpiresAt' = [premiumExpiresAt EXCEPT ![u] = <<>>]
                ELSE /\ ResolvedRole(u) = role[u]
                     /\ UNCHANGED <<role, premiumExpiresAt>>
             /\ ResolvedRole(u)' = role'[u]
             /\ UNCHANGED <<balance, history>>]_vars

\* The provider bought a membership and it lapsed: a read has put the role
\* back to 'proveedor' and cleared the expiry.
C21_Witness ==
    /\ role[1] = "proveedor"
    /\ premiumExpiresAt[1] = <<>>
    /\ Len(history[1]) > 0
    /\ today > 0

\* The step is an upgrade of user u for price a and m months that was paid.
UpgradePaid(u, a, m) ==
    /\ Len(history'[u]) > Len(history[u])
    /\ UpgradeToPremium(u, a, m)

\* C22: a successful /user/upgrade-to-premium with price A sets the role to
\* 'Proveedor Premium' when the current role is 'proveedor' or 'Proveedor
\* Premium' and to 'Distribuidor Premium' for every other role, lowers the
\* balance by exactly A, and puts exactly one debit entry of amount A that
\* records the plan (months, expiry) at the head of the user's ledger.
C22_UpgradeSetsRoleAndDebits ==
    [][\A u \in PremiumUsers, a \in PremiumPrices, m \in PremiumMonths :
          UpgradePaid(u, a, m)
          => /\ role' = [role EXCEPT ![u] =
                           IF role[u] \in {"proveedor", "Proveedor Premium"}
                           THEN "Proveedor Premium" ELSE "Distribuidor Premium"]
             /\ balance' = [balance EXCEPT ![u] = @ - a]
             /\ Len(history'[u]) = Len(history[u]) + 1
             /\ Tail(history'[u]) = history[u]
             /\ history'[u][1].type = "debit"
             /\ history'[u][1].amount = a
             /\ history'[u][1].months = m
             /\ history'[u][1].expirationDate = premiumExpiresAt'[u]
             /\ \A v \in UserIds \ {u} : history'[v] = history[v]]_vars

\* The provider bought one month: the role is 'Proveedor Premium', the price
\* is off the balance, and the ledger holds the one debit with the plan.
C22_Witness ==
    /\ role[1] = "Proveedor Premium"
    /\ balance[1] = 1000
    /\ Len(history[1]) = 1
    /\ history[1][1].type = "debit"
    /\ history[1][1].amount = 1000
    /\ history[1][1].months = 1
    /\ history[1][1].expirationDate = premiumExpiresAt[1]

\* User u holds the role an upgrade would give, with an expiry still ahead.
PremiumActive(u) ==
    /\ role[u] = (IF role[u] \in {"proveedor", "Proveedor Premium"}
                  THEN "Proveedor Premium" ELSE "Distribuidor Premium")
    /\ premiumExpiresAt[u] # <<>>
    /\ premiumExpiresAt[u][1] > today

\* C23: on a successful upgrade for m months the new expiry is the stored
\* expiry plus m months if the user already holds the target role with an
\* expiry still in the future, and the current time plus m months in every
\* other case; so an upgrade while premium is active never shortens the
\* time already paid.
C23_UpgradeExtendsActivePremium ==
    [][\A u \in PremiumUsers, a \in PremiumPrices, m \in PremiumMonths :
          UpgradePaid(u, a, m)
          => /\ premiumExpiresAt'[u] =
                   IF PremiumActive(u)
                   THEN <<premiumExpiresAt[u][1] + m * DaysPerMonth>>
                   ELSE <<today + m * DaysPerMonth>>
             /\ PremiumActive(u) => premiumExpiresAt'[u][1] > premiumExpiresAt[u][1]]_vars

\* The provider bought one month, and ten days later one more: the first
\* purchase ran to day 30, and the second runs from there to day 60.
C23_Witness ==
    /\ today = 10
    /\ Len(history[1]) = 2
    /\ history[1][2].expirationDate = <<30>>
    /\ history[1][2].purchaseDate = 0
    /\ history[1][1].purchaseDate = 10
    /\ history[1][1].months = 1
    /\ premiumExpiresAt[1] = <<60>>

\* ------------------------------------------------ properties of the checkout

\* Nothing a payment could touch changes in this step.
NothingCommitted ==
    UNCHANGED <<balance, history, role, premiumExpiresAt, stock, products, orders>>

\* C24: when the user's balance is lower than the price, each of
\* /user/purchase, /user/purchase/renovate, /user/upgrade-to-premium and
\* /user/apply-supplier fails (the purchase with status 400) and leaves
\* every balance, ledger, role, premium expiry, stock record, stock counter
\* and order unchanged.
C24_InsufficientBalanceCommitsNothing ==
    [][/\ \A a \in CheckoutPrices :
             (balance[2] < a /\ Purchase(2, 1, 1, a, "Autoentrega"))
             => PurchaseStatus(2, 1, 1, a) = 400 /\ NothingCommitted
       /\ \A t \in LedgerIds(2), m \in CheckoutMonths, a \in CheckoutPrices :
             (balance[2] < a /\ Renovate(2, t, m, a)) => NothingCommitted
       /\ \A a \in CheckoutPrices, m \in CheckoutMonths :
             (balance[2] < a /\ UpgradeToPremium(2, a, m)) => NothingCommitted
       /\ \A code \in ReferralCodes :
             (balance[2] < SUPPLIER_COST /\ ApplySupplier(2, code))
             => NothingCommitted]_vars

\* The customer bought and renewed and has 5.00 left: less than any price.
C24_Witness ==
    /\ balance[2] = 500
    /\ balance[2] < SUPPLIER_COST
    /\ Len(history[2]) = 2
    /\ \E k \in 1..2 : history[2][k].isRenovation

\* ------------------------------------------------ properties of the ledgers

\* Every entry of the ledger old is in the ledger new with the same id, type
\* and amount.
KeptIn(old, new) ==
    \A k \in 1..Len(old) : \E j \in 1..Len(new) :
        /\ new[j].id = old[k].id
        /\ new[j].type = old[k].type
        /\ new[j].amount = old[k].amount

\* C25: ledger entries are never physically deleted: every entry a ledger
\* held before an operation is in it afterwards with the same id, type and
\* amount, and so is every entry that /supplier/refund/proportional stores
\* with its first ledger write.
C25_LedgerEntriesNeverDeleted ==
    [][/\ \A u \in UserIds : KeptIn(history[u], history'[u])
       /\ \A u \in Buyers : \A t \in PurchaseIds(u) :
          \A a \in RefundAmounts, pr \in Buyers :
             (history' # history /\ RefundProportional(u, t, a, pr))
             => KeptIn(ProvHistory(pr, a), history'[pr])]_vars

\* The ledger new is the ledger old with entries added on top only: each old
\* entry has moved down by the number of entries added.
AddedAtHead(old, new) ==
    \A k \in 1..Len(old) : new[k + (Len(new) - Len(old))].id = old[k].id

\* C26: every operation that adds an entry to a user's ledger inserts it at
\* the head of that ledger, the older entries following in their order.
C26_NewEntriesGoToTheHead ==
    [][\A u \in UserIds :
          Len(history'[u]) > Len(history[u])
          => AddedAtHead(history[u], history'[u])]_vars

\* The absolute value of an amount.
Abs(x) == IF x < 0 THEN -x ELSE x

\* The step that changed u's balance left an entry for the change in u's
\* ledger: one new entry of the amount on top, or (the approval of a
\* recharge) the pending entry of the amount completed.
RecordedInLedger(u) ==
    \/ /\ Len(history'[u]) = Len(history[u]) + 1
       /\ history'[u][1].amount = Abs(balance'[u] - balance[u])
    \/ /\ Len(history'[u]) = Len(history[u])
       /\ \E k \in 1..Len(history[u]) :
             /\ history[u][k].status = "Pendiente"
             /\ history'[u][k].status = "Completada"

\* C27: balance and ledger move in lockstep: every completed operation that
\* changes a user's balance also leaves exactly one entry for that change in
\* the same user's ledger.
C27_BalanceChangesAreRecorded ==
    [][\A u \in UserIds :
          balance'[u] # balance[u] => RecordedInLedger(u)]_vars

\* The step is one of the stock mutations outside purchase and refund, and
\* it changed the table.
StockMutation ==
    /\ stock' # stock
    /\ \/ \E c \in Providers, n \in StockCounters, items \in CredentialLists :
             CreateProduct(c, "Autoentrega", n, items)
       \/ \E p \in DOMAIN products, items \in CredentialLists :
             ProductUpdate(p, "Autoentrega", items)
       \/ \E p \in DOMAIN products, c \in Providers, items \in CredentialLists :
             StockAdd(p, c, items)
       \/ \E id \in 1..Len(stock), data \in StockData : StockEdit(id, data)
       \/ \E id \in 1..Len(stock) : StockPublish(id)
       \/ \E id \in 1..Len(stock) : StockDelete(id)

\* C28: after every completed stock mutation outside purchase and refund
\* (POST /products with credentials, POST /product/update adding
\* credentials, stock/add, stock/publish, PUT and DELETE of a stock row) the
\* product's counter equals the sum of the quantities of its unsold records
\* whose status is not 'Sin publicar'.
C28_StockMutationsRecomputeCounter ==
    [][StockMutation =>
          \A p \in DOMAIN products' :
             products'[p].stock = PoolSum(stock', p)]_vars

\* The row stockId is in the table with the status 'Sin publicar'.
Unpublished(rows, stockId) ==
    RowExists(rows, stockId) /\ rows[stockId].status = "Sin publicar"

\* The table without its 'Sin publicar' rows.
WithoutUnpublished(rows) ==
    [i \in 1..Len(rows) |->
        IF rows[i].status = "Sin publicar" THEN DeletedRow ELSE rows[i]]

\* A purchase leaves every 'Sin publicar' row as it was and inserts no copy
\* of one.
PurchaseSparesUnpublished ==
    (/\ stock' # stock
     /\ \E p \in DOMAIN products, q \in 1..MaxQty, a \in PurchaseAmounts :
           Purchase(2, p, q, a, "Autoentrega"))
    => /\ \A id \in 1..Len(stock) :
             Unpublished(stock, id) => stock'[id] = stock[id]
       /\ \A id \in (Len(stock) + 1)..Len(stock') :
             stock'[id].status # "Sin publicar"

\* A step that recomputes the counter writes the sum of the table without
\* its 'Sin publicar' rows.
RecomputeSkipsUnpublished ==
    (/\ stock' # stock
     /\ \/ \E p \in DOMAIN products, c \in Providers, items \in CredentialLists :
             StockAdd(p, c, items)
        \/ \E id \in 1..Len(stock) : StockPublish(id)
        \/ \E id \in 1..Len(stock) : StockDelete(id))
    => \A p \in DOMAIN products :
          products'[p].stock = PoolSum(WithoutUnpublished(stock'), p)

\* stock/add stores its items unsold and 'Sin publicar', and the counter it
\* writes is the sum over the rows that were there before.
AddStartsUnpublished ==
    (/\ stock' # stock
     /\ \E p \in DOMAIN products, c \in Providers, items \in CredentialLists :
           StockAdd(p, c, items))
    => /\ \A id \in (Len(stock) + 1)..Len(stock') :
             Unpublished(stock', id) /\ ~stock'[id].is_sold
       /\ \A p \in DOMAIN products : products'[p].stock = PoolSum(stock, p)

\* Publishing an unsold 'Sin publicar' row raises the sum by its quantity.
PublishMakesVisible ==
    \A id \in 1..Len(stock) :
       (/\ Unpublished(stock, id) /\ ~stock[id].is_sold
        /\ StockPublish(id))
       => LET p == stock[id].product_id IN
          p \in DOMAIN products =>
             products'[p].stock
                = PoolSum(stock, p) + ParseQuantity(stock[id].quantity)

OrderOf(r) ==
    [purchase_id |-> NewId(r[1], history[r[1]]), buyer_user_id |-> r[1],
     provider_user_id |-> products[r[2]].creator_user_id,
     product_id |-> r[2], quantity |-> r[3], status |-> "Pending"]

\* C30: a completed purchase of an 'A pedido' product consumes no stock
\* record that was there before (none is marked sold, split or rewritten)
\* and creates exactly one Order row, 'Pending', linking the purchase id to
\* the buyer, the provider, the product and the quantity.
C30_OrderPurchaseConsumesNoStock ==
    [][\A r \in PurchaseRequests :
          (r[5] = "A pedido" /\ PurchaseCompleted(r))
          => /\ \A id \in 1..Len(stock) : stock'[id] = stock[id]
             /\ orders' = Append(orders, OrderOf(r))]_vars

\* Nothing that user u owned is left: no product u created, no stock record
\* whose provider is u or whose product is gone, no order u is buyer or
\* provider of, no withdrawal of u.
NothingLeftOf(u) ==
    /\ \A p \in DOMAIN products : products[p].creator_user_id # u
    /\ \A id \in 1..Len(stock) :
          RowExists(stock, id)
          => /\ stock[id].provider_user_id # u
             /\ stock[id].product_id \in DOMAIN products
    /\ \A k \in 1..Len(orders) :
          orders[k].buyer_user_id # u /\ orders[k].provider_user_id # u
    /\ \A w \in withdrawals : w.user_id # u

\* C31: after POST /admin/user/delete succeeds for user U, no product
\* created by U, no stock record whose provider is U or whose product was
\* created by U, no order of U and no withdrawal of U remains.
C31_UserDeletionCascades ==
    [][\A u \in UserIds :
          (u \in users /\ u \notin users' /\ AdminUserDelete(u))
          => NothingLeftOf(u)']_vars

\* The product is inside its publication window.
Listable(p) ==
    /\ products[p].is_published
    /\ Len(products[p].publication_end_date) > 0
    /\ products[p].publication_end_date[1] > today

\* C32: no public listing endpoint (GET /products, GET
\* /products/trending-carousel) returns a product with is_published = 0, a
\* null publication_end_date, or a publication_end_date that has passed.
C32_OnlyPublishedProductsAreListed ==
    \A p \in PublicProducts \cup TrendingCarousel : Listable(p)

\* The products with is_trending = 1.
Trending == {p \in DOMAIN products : products[p].is_trending}

\* The step is a request that would put a fifth product on the carousel.
FifthTrendingRequested ==
    \/ /\ Cardinality(Trending) = MaxTrending
       /\ \E p \in CatalogIds \ Trending : UpdateTags(p, TRUE)
    \/ \E ids \in SUBSET CatalogIds :
          Cardinality(ids) > MaxTrending /\ SetCarousel(ids)

\* C40: over non-overlapping update-tags and set-carousel requests, starting
\* with at most 4 trending products, at most 4 products have is_trending =
\* 1, and a request that would make a fifth product trending is rejected
\* and changes nothing.
C40_AtMostFourTrending ==
    /\ [](Cardinality(Trending) <= MaxTrending)
    /\ [][FifthTrendingRequested => UNCHANGED vars]_vars

\* The carousel is full and holds a product that was put on it by a request.
C40_Witness ==
    /\ Cardinality(Trending) = MaxTrending
    /\ MaxTrending + 1 \in Trending

\* The step is the write of the waiting request k, and it stored a ledger
\* for the request's user.
WriteCompleted(k) ==
    /\ history'[inFlight[k].userId] # history[inFlight[k].userId]
    /\ RecordWrite(k) \/ PurchaseWrite(k)

\* C33: when two requests that add an entry to one user's ledger both read
\* the ledger (and balance) before either writes, the later write stores
\* the ledger it read plus its own entry: the entries stored since its read
\* are gone, and a purchase's balance is the balance it read less its
\* amount, so only one of the two changes is left (last write wins).
C33_OverlappedWritesLoseUpdates ==
    [][\A k \in 1..Len(inFlight) :
          WriteCompleted(k)
          => LET r == inFlight[k] IN
             /\ \A id \in LedgerIds(r.userId) \ IdsOf(r.currentHistory) :
                   id \notin IdsOf(history'[r.userId])
             /\ r.transactionId \in IdsOf(history'[r.userId])
             /\ r.kind = "purchase"
                => balance'[r.userId] = r.balance - r.numericAmount]_vars

\* Two purchases of buyer 2 were both completed (the provider's ledger
\* holds both sales), the buyer's ledger holds only one of them and the
\* buyer was debited once.
C33_Witness ==
    /\ inFlight = <<>>
    /\ balance[2] = 1000 - 1000
    /\ \E i \in 1..Len(history[1]), j \in 1..Len(history[1]) :
          /\ history[1][i].buyerUserId = 2 /\ history[1][j].buyerUserId = 2
          /\ history[1][i].buyerTransactionId \in LedgerIds(2)
          /\ history[1][j].buyerTransactionId \notin LedgerIds(2)

\* C34: when two purchases of one product overlap so that both read the
\* unsold pool before either writes, each is completed on the pool it read:
\* the later one still debits its buyer and credits the provider although
\* the unit it takes is already sold, so both succeed for the same unit.
C34_OverlappedPurchasesOversell ==
    [][\A k \in 1..Len(inFlight) :
          (/\ inFlight[k].kind = "purchase"
           /\ PurchaseWrite(k)
           /\ PoolSum(inFlight[k].allStock, inFlight[k].productId)
                 >= inFlight[k].numericQty)
          => LET r == inFlight[k] IN
             /\ balance'[r.userId] = r.balance - r.numericAmount
             /\ balance'[r.product.creator_user_id]
                   = balance[r.product.creator_user_id] + r.numericAmount
             /\ products'[r.productId].stock
                   = products[r.productId].stock - r.numericQty]_vars

\* The pool held one unit; buyers 2 and 3 both hold a completed purchase of
\* it, both were debited, the provider was credited twice, and the counter
\* is below zero.
C34_Witness ==
    /\ Len(stock) = 1 /\ ParseQuantity(stock[1].quantity) = 1
    /\ \E i \in 1..Len(history[2]), j \in 1..Len(history[3]) :
          /\ history[2][i].fullCredentials = <<1>>
          /\ history[3][j].fullCredentials = <<1>>
    /\ balance[2] = 0 /\ balance[3] = 0
    /\ balance[1] = 2000
    /\ products[1].stock < 0

\* The status stored for the withdrawal the waiting request k acts on:
\* the empty set once the row is deleted.
StoredStatus(k) ==
    {w.status : w \in {x \in withdrawals : x.id = inFlight[k].withdrawalId}}

\* The step is the write of the waiting reject or cancel k: it puts the
\* held gross amount back on the balance.
RestoresGross(k) ==
    /\ balance' # balance
    /\ ManageWrite(k) \/ CancelWrite(k)

\* The step is the write of the waiting approve k: it records the payout
\* in the provider's ledger.
RecordsPayout(k) ==
    /\ history' # history
    /\ inFlight[k].kind = "manage"
    /\ inFlight[k].action = "approve"
    /\ ManageWrite(k)

\* C35: of two requests acting on the same Pending withdrawal (approve with
\* reject, or a decision with the provider's cancel), at most one takes
\* effect in every interleaving: the held gross amount is restored only
\* while the withdrawal is still stored as Pending, so never twice and never
\* after the payout was approved, and a payout is never recorded for a
\* withdrawal whose amount was already restored by a reject or a cancel.
C35_OneDecisionTakesEffect ==
    [][\A k \in 1..Len(inFlight) :
          /\ RestoresGross(k) => StoredStatus(k) = {"Pending"}
          /\ RecordsPayout(k) => StoredStatus(k) \in {{"Pending"}, {"Approved"}}]_vars

\* A second run of GET /fix-broken-transactions, right after a first one
\* that drew the codes first, stores the ledgers of the first and answers
\* with both counts zero.
FixBrokenTwice(first, second) ==
    LET once == FixBroken(history, first) IN
    /\ FixBroken(once, second) = once
    /\ FixedProvider(once) = 0
    /\ FixedOrderCode(once) = 0

\* A second run of GET /fix-old-tickets right after a first one stores the
\* ledgers of the first and counts no entry.
FixOldTwice ==
    LET once == FixOld(history) IN
    FixOld(once) = once /\ TotalFixed(once) = 0

\* C36: both maintenance sweeps are idempotent: whatever the ledgers hold
\* (entries with or without id, order code, details, provider and stock
\* link), a second run right after the first changes no ledger and reports
\* zero repaired provider links and zero created order codes.
C36_SweepsAreIdempotent ==
    /\ FixOldTwice
    /\ \A first, second \in [1..MaxLedger -> RandomCodes] :
          FixBrokenTwice(first, second)

\* The step is a refund against the purchase t of user u that paid: a
\* handle-support 'refund' or a /supplier/refund/proportional.
RefundCredited(u, t) ==
    /\ balance'[u] # balance[u]
    /\ \/ HandleSupport(t, "refund")
       \/ \E a \in ClaimedRefunds, pr \in Providers : RefundProportional(u, t, a, pr)

\* What user u paid for the purchase t.
AmountPaid(u, t) == history[u][FindIndex(WithId(history[u], t))].amount

\* C37: no single refund pays back more than was paid: every successful
\* refund against a purchase (handle-support 'refund', or
\* /supplier/refund/proportional) credits the buyer an amount greater than 0
\* and at most the amount of that purchase.
C37_RefundNeverExceedsPurchase ==
    [][\A t \in PurchaseIds(2) :
          RefundCredited(2, t)
          => /\ balance'[2] - balance[2] > 0
             /\ balance'[2] - balance[2] <= AmountPaid(2, t)]_vars

PremiumRoles == {"Distribuidor Premium", "Proveedor Premium"}

\* The step is a read of user u's row that runs the lazy expiry check.
ExpiryChecked(u) == GetProfile(u) \/ Login(u)

\* C38: in every reachable state a user whose premium_expires_at is set
\* holds a premium role ('Distribuidor Premium' or 'Proveedor Premium'), so
\* the lazy expiry check never changes the role of a user whose stored role
\* is 'Admin', 'proveedor', 'distribuidor', 'Pending' or 'Usuario', whatever
\* upgrades and admin role updates came before.
C38_ExpiryOnlyWithPremiumRole ==
    /\ [](\A u \in UserIds : premiumExpiresAt[u] # <<>> => role[u] \in PremiumRoles)
    /\ [][\A u \in PremiumUsers :
             (role[u] \notin PremiumRoles /\ ExpiryChecked(u))
             => role'[u] = role[u]]_vars

\* C39: the administrator's account cannot be deleted: /admin/user/delete
\* refuses it without changing anything, and no approve or reject of an
\* application, supplier application or its cancellation, premium upgrade
\* or expiry makes the account deletable, so the account that was created
\* as 'Admin' is in the users table in every reachable state.
C39_AdminAccountIsNeverDeleted ==
    /\ [](AdminAccount \in users)
    /\ [][(role[AdminAccount] = "Admin" /\ AdminUserDelete(AdminAccount))
          => UNCHANGED vars]_vars
====
